---------------------------- MODULE Spec2Model ----------------------------
(***************************************************************************)
(* A model of the file classification-and-relocation engine of enforce:   *)
(* the extension switch, the walk that applies it (sortFiles and           *)
(* FileSorter.Execute), the pass that removes empty directories            *)
(* (removeEmptySubdirectories), and the two orchestrators that call them   *)
(* (main of src/enforce.go and main of old/enforce.txt).                   *)
(*                                                                         *)
(* A file name is a sequence of one-character strings, a path is a         *)
(* sequence of names relative to the selected project directory (the       *)
(* project directory itself is the empty path).                            *)
(***************************************************************************)
EXTENDS Naturals, Sequences, FiniteSets, TLC

VARIABLES
    op,            \* the operation being run
    status,        \* "running", "done", "fatal" (log.Fatal) or "error" (returned error)
    cause,         \* what ended the run abnormally ("none" while there is no failure)
    files,         \* the regular files: path |-> the path the content had at the start
    dirs,          \* the directories other than the project directory
    orig,          \* the set of regular file paths at the start
    origDirs,      \* the set of directories at the start
    stack,         \* the call stack of sortFiles / Execute, innermost frame last
    moved,         \* the renames performed so far, in order (the "Moved" lines)
    failedMoves,   \* Len(moved) at the moment a MkdirAll or Rename failed
    subdirectories,\* removeEmptySubdirectories: the collected directories not yet tested
    removed,       \* removeEmptySubdirectories: the directories removed, in order
    logged,        \* removeEmptySubdirectories: the directories whose error was logged
    fileName,      \* classifier runs: the file name being classified
    dest,          \* classifier runs: the destinations the two switches gave it
    directory,     \* ExecuteOperations: the RecursiveDirectory it is called on
    prog,          \* the program whose main is running ("none": an operation run alone)
    pc,            \* main: the index of its next instruction
    budget,        \* main: the failures the environment may still cause
    events         \* what has happened outside the operation, in order

vars == << op, status, cause, files, dirs, orig, origDirs, stack, moved,
           failedMoves, subdirectories, removed, logged, fileName, dest,
           directory, prog, pc, budget, events >>

---------------------------------------------------------------------------
(* Characters and strings                                                  *)

Lowers == << "a", "b", "c", "d", "e", "f", "g", "h", "i", "j", "k", "l", "m",
             "n", "o", "p", "q", "r", "s", "t", "u", "v", "w", "x", "y", "z" >>

Uppers == << "A", "B", "C", "D", "E", "F", "G", "H", "I", "J", "K", "L", "M",
             "N", "O", "P", "Q", "R", "S", "T", "U", "V", "W", "X", "Y", "Z" >>

\* The vertical tab (U+000B) and the no-break space (U+00A0), each one character
\* of a name.
VT == "<U+000B>"
NBSP == "<U+00A0>"

\* The characters of the model in byte order, the order sort.Strings uses.
Alphabet ==
    << "\t", "\n", VT, "\f", "\r", " ", "-", ".", "3", "4" >> \o Uppers \o << "_" >>
        \o Lowers \o << NBSP >>

\* \s of the regexp package: [\t\n\f\r ] and nothing else.
PerlSpace == { "\t", "\n", "\f", "\r", " " }

\* unicode.IsSpace, on the characters of the model.
IsSpace(c) == c \in { "\t", "\n", VT, "\f", "\r", " ", NBSP }

\* unicode.IsUpper
IsUpper(c) == \E i \in 1..Len(Uppers) : Uppers[i] = c

Ord(c) == CHOOSE i \in 1..Len(Alphabet) : Alphabet[i] = c

\* unicode.ToLower on one character
ToLowerChar(c) ==
    IF \E i \in 1..Len(Uppers) : Uppers[i] = c
    THEN Lowers[CHOOSE i \in 1..Len(Uppers) : Uppers[i] = c]
    ELSE c

ToUpperChar(c) ==
    IF \E i \in 1..Len(Lowers) : Lowers[i] = c
    THEN Uppers[CHOOSE i \in 1..Len(Lowers) : Lowers[i] = c]
    ELSE c

\* strings.ToLower
ToLower(s) == [i \in 1..Len(s) |-> ToLowerChar(s[i])]

ToUpper(s) == [i \in 1..Len(s) |-> ToUpperChar(s[i])]

\* strings.HasSuffix: byte-wise, case-sensitive
HasSuffix(s, suffix) ==
    /\ Len(suffix) <= Len(s)
    /\ SubSeq(s, Len(s) - Len(suffix) + 1, Len(s)) = suffix

\* strings.TrimSuffix
TrimSuffix(s, suffix) ==
    IF HasSuffix(s, suffix) THEN SubSeq(s, 1, Len(s) - Len(suffix)) ELSE s

\* filepath.Ext on a base name: the suffix beginning at the final dot, empty
\* when the name has no dot.
Ext(base) ==
    IF \E i \in 1..Len(base) : base[i] = "."
    THEN LET k == CHOOSE i \in 1..Len(base) :
                      /\ base[i] = "."
                      /\ \A j \in (i+1)..Len(base) : base[j] # "."
         IN  SubSeq(base, k, Len(base))
    ELSE << >>

\* s < t in the order of sort.Strings
RECURSIVE StrLess(_, _)
StrLess(s, t) ==
    IF s = << >> THEN t # << >>
    ELSE IF t = << >> THEN FALSE
    ELSE IF s[1] = t[1] THEN StrLess(Tail(s), Tail(t))
    ELSE Ord(s[1]) < Ord(t[1])

---------------------------------------------------------------------------
(* Paths                                                                   *)

Dot == << "." >>
DotDot == << ".", "." >>

\* filepath.Clean on a relative path given as its segments: empty and "."
\* segments vanish, ".." removes the segment before it.
RECURSIVE CleanOnto(_, _)
CleanOnto(acc, segs) ==
    IF segs = << >> THEN acc
    ELSE LET s == Head(segs) IN
         IF s = << >> \/ s = Dot THEN CleanOnto(acc, Tail(segs))
         ELSE IF s = DotDot /\ acc # << >> /\ acc[Len(acc)] # DotDot
              THEN CleanOnto(SubSeq(acc, 1, Len(acc) - 1), Tail(segs))
              ELSE CleanOnto(Append(acc, s), Tail(segs))

\* filepath.Clean on a relative path: "." when nothing is left
Clean(segs) ==
    LET r == CleanOnto(<< >>, segs) IN IF r = << >> THEN << Dot >> ELSE r

\* filepath.Join of relative elements: the non-empty elements, cleaned
Join(elems) == Clean(elems)

\* filepath.Join(folderPath, rel) for a folder at or below the project directory
JoinPath(folderPath, rel) == CleanOnto(folderPath, rel)

\* filepath.Base of a path below the project directory
Base(path) == path[Len(path)]

\* filepath.Dir
Dir(path) == SubSeq(path, 1, Len(path) - 1)

IsPrefix(p, q) == Len(p) <= Len(q) /\ SubSeq(q, 1, Len(p)) = p

\* path < q in the order filepath.Walk visits siblings and descends: segment
\* by segment, a directory before what it contains.
RECURSIVE PathLess(_, _)
PathLess(p, q) ==
    IF p = << >> THEN q # << >>
    ELSE IF q = << >> THEN FALSE
    ELSE IF p[1] = q[1] THEN PathLess(Tail(p), Tail(q))
    ELSE StrLess(p[1], q[1])

RECURSIVE SortPaths(_)
SortPaths(S) ==
    IF S = {} THEN << >>
    ELSE LET m == CHOOSE x \in S : \A y \in S \ {x} : PathLess(x, y)
         IN  << m >> \o SortPaths(S \ {m})

RECURSIVE SortNames(_)
SortNames(S) ==
    IF S = {} THEN << >>
    ELSE LET m == CHOOSE x \in S : \A y \in S \ {x} : StrLess(x, y)
         IN  << m >> \o SortNames(S \ {m})

Reverse(s) == [i \in 1..Len(s) |-> s[Len(s) + 1 - i]]

---------------------------------------------------------------------------
(* The extension switch                                                    *)

\* The folder names of the switches
REF == <<"r", "e", "f">>
DOC == <<"d", "o", "c">>
EG == <<"e", "g">>
SRC == <<"s", "r", "c">>
DATA == <<"d", "a", "t", "a">>
JOB == <<"j", "o", "b">>
MEDIA == <<"m", "e", "d", "i", "a">>
BIN == <<"b", "i", "n">>

\* The case lists of the switch of sortFiles in src/enforce.go
caseRefEarly ==
    {
      <<".", "p", "d", "f">>, <<".", "d", "j", "v", "u">>, <<".", "e", "p", "u", "b">>,
      <<".", "h", "t", "m", "l">>, <<".", "m", "k", "v">>, <<".", "m", "p", "4">> }

caseDocEarly ==
    {
      <<".", "d", "o", "c", "x">>, <<".", "m", "d">>, <<".", "t", "e", "x">>,
      <<".", "t", "x", "t">>, <<".", "d", "o", "c">>, <<".", "p", "p", "t", "x">> }

caseEgEarly ==
    {
      <<".", "i", "p", "y", "n", "b">> }

caseSrcEarly ==
    {
      <<".", "p", "y">>, <<".", "g", "o">>, <<".", "i", "n", "p">>, <<".", "c">>, <<".", "m">>,
      <<".", "f", "o", "r">>, <<".", "c", "p", "p">>, <<".", "j", "a", "v", "a">> }

\* The case lists of the switch of FileSorter.Execute (src/sorter.go), the same as
\* those of sortFiles in old/enforce.txt
caseDocLater ==
    {
      <<".", "p", "d", "f">>, <<".", "d", "j", "v", "u">>, <<".", "e", "p", "u", "b">>,
      <<".", "h", "t", "m", "l">>, <<".", "d", "o", "c", "x">>, <<".", "m", "d">>,
      <<".", "t", "e", "x">>, <<".", "t", "x", "t">>, <<".", "d", "o", "c">>,
      <<".", "p", "p", "t", "x">>, <<".", "i", "p", "y", "n", "b">> }

caseJobLater ==
    {
      <<".", "r", "s", "t">>, <<".", "r", "t", "h">>, <<".", "c", "d", "b">>,
      <<".", "l", "s", "-", "d", "y", "n", "a">>, <<".", "d", "b">>, <<".", "d", "b", "b">>,
      <<".", "e", "s", "a", "v">>, <<".", "o", "u", "t">> }

caseMediaLater ==
    {
      <<".", "m", "k", "v">>, <<".", "m", "p", "4">>, <<".", "a", "a", "c">>,
      <<".", "f", "l", "a", "c">>, <<".", "w", "a", "v">>, <<".", "a", "v", "i">>,
      <<".", "p", "n", "g">>, <<".", "j", "p", "e", "g">>, <<".", "m", "o", "v">>,
      <<".", "w", "m", "v">>, <<".", "j", "p", "g">>, <<".", "m", "p", "3">> }

caseSrcLater ==
    {
      <<".", "p", "y">>, <<".", "g", "o">>, <<".", "a", "n", "s">>, <<".", "i", "n", "p">>,
      <<".", "c">>, <<".", "m">>, <<".", "f", "o", "r">>, <<".", "c", "p", "p">>,
      <<".", "j", "a", "v", "a">>, <<".", "s", "c", "a", "l", "a">>, <<".", "p", "h", "p">>,
      <<".", "s", "h">>, <<".", "a", "s", "m">>, <<".", "h">>, <<".", "d", "a", "t">> }

caseBinLater ==
    {
      <<".", "e", "x", "e">> }

\* The switch of sortFiles in src/enforce.go: destFolder, relative to the folder
\* being sorted, for a file with this base name.
destFolderEarly(base) ==
    LET extension == ToLower(Ext(base))
        stem == TrimSuffix(base, extension)
    IN
    IF extension \in caseRefEarly
    THEN Join(<< REF, stem >>)
    ELSE IF extension \in caseDocEarly
    THEN << DOC >>
    ELSE IF extension \in caseEgEarly
    THEN Join(<< EG, stem >>)
    ELSE IF extension \in caseSrcEarly
    THEN Join(<< SRC, stem >>)
    ELSE << DATA >>

\* destFolderLater with the default case lost: destFolder keeps its initial "".
destFolderLater_noDefault(base) ==
    LET extension == ToLower(Ext(base))
        stem == TrimSuffix(base, extension)
    IN
    IF extension \in caseDocLater
    THEN Join(<< DOC, stem >>)
    ELSE IF extension \in caseJobLater
    THEN << JOB >>
    ELSE IF extension \in caseMediaLater
    THEN Join(<< MEDIA, stem >>)
    ELSE IF extension \in caseSrcLater
    THEN Join(<< SRC, stem >>)
    ELSE IF extension \in caseBinLater
    THEN << BIN >>
    ELSE << >>

\* destFolderLater with .ipynb still handled as the earlier switch handles it.
destFolderLater_ipynbToEg(base) ==
    LET extension == ToLower(Ext(base))
        stem == TrimSuffix(base, extension)
    IN
    IF extension \in caseEgEarly
    THEN Join(<< EG, stem >>)
    ELSE IF extension \in caseDocLater
    THEN Join(<< DOC, stem >>)
    ELSE IF extension \in caseJobLater
    THEN << JOB >>
    ELSE IF extension \in caseMediaLater
    THEN Join(<< MEDIA, stem >>)
    ELSE IF extension \in caseSrcLater
    THEN Join(<< SRC, stem >>)
    ELSE IF extension \in caseBinLater
    THEN << BIN >>
    ELSE << DATA >>

\* destFolderLater with the .exe case lost: .exe files fall through to the default.
destFolderLater_exeToData(base) ==
    LET extension == ToLower(Ext(base))
        stem == TrimSuffix(base, extension)
    IN
    IF extension \in caseDocLater
    THEN Join(<< DOC, stem >>)
    ELSE IF extension \in caseJobLater
    THEN << JOB >>
    ELSE IF extension \in caseMediaLater
    THEN Join(<< MEDIA, stem >>)
    ELSE IF extension \in caseSrcLater
    THEN Join(<< SRC, stem >>)
    ELSE << DATA >>

\* The switch of FileSorter.Execute and of sortFiles in old/enforce.txt.
destFolderLater(base) ==
    LET extension == ToLower(Ext(base))
        stem == TrimSuffix(base, extension)
    IN
    IF extension \in caseDocLater
    THEN Join(<< DOC, stem >>)
    ELSE IF extension \in caseJobLater
    THEN << JOB >>
    ELSE IF extension \in caseMediaLater
    THEN Join(<< MEDIA, stem >>)
    ELSE IF extension \in caseSrcLater
    THEN Join(<< SRC, stem >>)
    ELSE IF extension \in caseBinLater
    THEN << BIN >>
    ELSE << DATA >>

---------------------------------------------------------------------------
(* The file system                                                         *)

GIT == << ".", "g", "i", "t" >>

\* The non-empty prefixes of a path: the path itself and its ancestors below the
\* project directory.
Prefixes(path) == { SubSeq(path, 1, k) : k \in 1..Len(path) }

Exists(fs, path) == path = << >> \/ path \in fs.dirs \/ path \in DOMAIN fs.files

IsDir(fs, path) == path = << >> \/ path \in fs.dirs

\* The names of the entries of a directory, as readDirNames (filepath.Walk) returns
\* them: sorted.
readDirNames(fs, dir) ==
    SortNames({ Base(q) : q \in { x \in fs.dirs \cup DOMAIN fs.files : Dir(x) = dir } })

\* MkdirAllOk of os.Mkdir, which fails on a directory that exists.
MkdirAllOk_failsIfExists(fs, path) ==
    /\ path \notin fs.dirs
    /\ \A q \in Prefixes(path) : q \notin DOMAIN fs.files

\* os.MkdirAll succeeds unless the path or one of its ancestors is a regular file.
MkdirAllOk(fs, path) == \A q \in Prefixes(path) : q \notin DOMAIN fs.files

\* os.MkdirAll: the path and every missing ancestor become directories.
MkdirAll(fs, path) == [fs EXCEPT !.dirs = @ \cup Prefixes(path)]

\* RenameOk of a rename that refuses to replace an existing file.
RenameOk_noReplace(fs, oldpath, newpath) ==
    /\ oldpath \in DOMAIN fs.files
    /\ newpath \notin fs.dirs
    /\ newpath \in DOMAIN fs.files => newpath = oldpath

\* os.Rename of a regular file fails when the new path is a directory.
RenameOk(fs, oldpath, newpath) == oldpath \in DOMAIN fs.files /\ newpath \notin fs.dirs

\* Rename of a move that copies the file and leaves the old path in place.
Rename_keepsOld(fs, oldpath, newpath) ==
    [fs EXCEPT !.files =
        [q \in DOMAIN fs.files \cup {newpath} |->
            IF q = newpath THEN fs.files[oldpath] ELSE fs.files[q]]]

\* os.Rename of a regular file: a regular file at the new path is replaced.
Rename(fs, oldpath, newpath) ==
    [fs EXCEPT !.files =
        [q \in (DOMAIN fs.files \ {oldpath}) \cup {newpath} |->
            IF q = newpath THEN fs.files[oldpath] ELSE fs.files[q]]]

\* getSubdirectories of a walk that also collects the folder it starts from.
getSubdirectories_withFolder(fs, folderPath) ==
    LET below == { q \in fs.dirs \cup { folderPath } : IsPrefix(folderPath, q) }
        rel == { SubSeq(q, Len(folderPath) + 1, Len(q)) : q \in below }
    IN  SortPaths(rel)

\* The directories below a folder in the order filepath.Walk meets them (every
\* directory before its content, siblings in name order), relative to the folder:
\* what getSubdirectories returns.
getSubdirectories(fs, folderPath) ==
    LET below == { q \in fs.dirs : IsPrefix(folderPath, q) /\ q # folderPath }
        rel == { SubSeq(q, Len(folderPath) + 1, Len(q)) : q \in below }
    IN  SortPaths(rel)

\* A RecursiveDirectory (src/directory.go): the embedded Directory with its path
\* and operations, and the subdirectories. NoDirectory has neither.
NoDirectory == [path |-> << >>, operations |-> << >>, subdirectories |-> << >>]

---------------------------------------------------------------------------
(* sortFiles (src/enforce.go, old/enforce.txt) and FileSorter.Execute      *)

FS == [files |-> files, dirs |-> dirs]

NoCause == [call |-> "none", injected |-> FALSE, path |-> << >>]

\* An entry of the sequence of events: what happened, how, and to which path.
Event(ev, what, path) == [ev |-> ev, what |-> what, path |-> path]

\* destFolder of a program with one table only, that of sortFiles in
\* src/enforce.go.
destFolder_earlyTable(o, base) == destFolderEarly(base)

\* The switch an operation uses.
destFolder(o, base) ==
    IF o = "sortFiles" THEN destFolderEarly(base) ELSE destFolderLater(base)

\* How an operation surfaces the error its walk returned: sortFiles calls log.Fatal,
\* FileSorter.Execute returns the wrapped error.
Surfaced(o) == IF o \in {"Execute", "extractFilesToPath"} THEN "error" ELSE "fatal"

\* walkFn of a callback that skips a file it cannot move and returns nil.
walkFn_swallowsError(o, fs, folderPath, path, mkdirFault, renameFault) ==
    LET destFolderPath == JoinPath(folderPath, destFolder(o, Base(path)))
        destFilePath == JoinPath(destFolderPath, << Base(path) >>)
        made == MkdirAll(fs, destFolderPath)
    IN  IF mkdirFault \/ ~MkdirAllOk(fs, destFolderPath)
        THEN [failed |-> "MkdirAll", injected |-> mkdirFault, at |-> destFolderPath,
              err |-> "nil", dst |-> destFilePath, moved |-> FALSE, fs |-> fs]
        ELSE IF renameFault \/ ~RenameOk(made, path, destFilePath)
        THEN [failed |-> "Rename", injected |-> renameFault, at |-> destFilePath,
              err |-> "nil", dst |-> destFilePath, moved |-> FALSE, fs |-> made]
        ELSE [failed |-> "none", injected |-> FALSE, at |-> destFilePath,
              err |-> "nil", dst |-> destFilePath, moved |-> TRUE,
              fs |-> Rename(made, path, destFilePath)]

\* walkFn of a callback that makes the destination folder under the directory the
\* file is in instead of under folderPath.
walkFn_underFileDir(o, fs, folderPath, path, mkdirFault, renameFault) ==
    LET destFolderPath == JoinPath(Dir(path), destFolder(o, Base(path)))
        destFilePath == JoinPath(destFolderPath, << Base(path) >>)
        made == MkdirAll(fs, destFolderPath)
    IN  IF mkdirFault \/ ~MkdirAllOk(fs, destFolderPath)
        THEN [failed |-> "MkdirAll", injected |-> mkdirFault, at |-> destFolderPath,
              err |-> "MkdirAll", dst |-> destFilePath, moved |-> FALSE, fs |-> fs]
        ELSE IF renameFault \/ ~RenameOk(made, path, destFilePath)
        THEN [failed |-> "Rename", injected |-> renameFault, at |-> destFilePath,
              err |-> "Rename", dst |-> destFilePath, moved |-> FALSE, fs |-> made]
        ELSE [failed |-> "none", injected |-> FALSE, at |-> destFilePath,
              err |-> "nil", dst |-> destFilePath, moved |-> TRUE,
              fs |-> Rename(made, path, destFilePath)]

\* The walk callback on a regular file: classify, create the destination folder
\* under folderPath, rename the file into it. mkdirFault and renameFault are the
\* environment making the call fail. The result: the call that failed (failed,
\* "none" when both succeeded) and whether the environment made it fail, the path
\* that call was given, the error the callback returns (err), the destination of
\* the file, whether it was moved, and the file system left behind.
walkFn(o, fs, folderPath, path, mkdirFault, renameFault) ==
    LET destFolderPath == JoinPath(folderPath, destFolder(o, Base(path)))
        destFilePath == JoinPath(destFolderPath, << Base(path) >>)
        made == MkdirAll(fs, destFolderPath)
    IN  IF mkdirFault \/ ~MkdirAllOk(fs, destFolderPath)
        THEN [failed |-> "MkdirAll", injected |-> mkdirFault, at |-> destFolderPath,
              err |-> "MkdirAll", dst |-> destFilePath, moved |-> FALSE, fs |-> fs]
        ELSE IF renameFault \/ ~RenameOk(made, path, destFilePath)
        THEN [failed |-> "Rename", injected |-> renameFault, at |-> destFilePath,
              err |-> "Rename", dst |-> destFilePath, moved |-> FALSE, fs |-> made]
        ELSE [failed |-> "none", injected |-> FALSE, at |-> destFilePath,
              err |-> "nil", dst |-> destFilePath, moved |-> TRUE,
              fs |-> Rename(made, path, destFilePath)]

\* The walk callback of extractFilesToPath on a regular file: the file is renamed
\* to rootPath/<its name>; the result is as for walkFn.
extractFn(fs, rootPath, path, renameFault) ==
    LET destinationPath == JoinPath(rootPath, << Base(path) >>)
    IN  IF renameFault \/ ~RenameOk(fs, path, destinationPath)
        THEN [failed |-> "Rename", injected |-> renameFault, at |-> destinationPath,
              err |-> "Rename", dst |-> destinationPath, moved |-> FALSE, fs |-> fs]
        ELSE [failed |-> "none", injected |-> FALSE, at |-> destinationPath,
              err |-> "nil", dst |-> destinationPath, moved |-> TRUE,
              fs |-> Rename(fs, path, destinationPath)]

\* The operations that are one filepath.Walk, without the recursion of sortFiles.
Walkers == {"Execute", "extractFilesToPath"}

\* A frame of the call stack: the folder being sorted, where the call is, the
\* subdirectories it still has to recurse into, and the directories its walk is
\* inside of, each with the names it still has to visit (innermost last).
Frame(folderPath) ==
    [folder |-> folderPath, phase |-> "enter", subs |-> << >>, walk |-> << >>]

\* Returns that change nothing: a walk leaves every directory it has finished, and
\* a call whose walk is over returns to its caller.
RECURSIVE Unwind(_)
Unwind(st) ==
    IF st = << >> THEN st
    ELSE LET top == st[Len(st)] IN
         IF top.phase # "walk" THEN st
         ELSE IF top.walk = << >> THEN Unwind(SubSeq(st, 1, Len(st) - 1))
         ELSE IF top.walk[Len(top.walk)].names = << >>
              THEN Unwind([st EXCEPT ![Len(st)].walk = SubSeq(@, 1, Len(@) - 1)])
              ELSE st

Top == stack[Len(stack)]

Sorting == /\ status = "running"
           /\ op \in {"sortFiles", "sortFilesLater", "Execute", "extractFilesToPath"}
           /\ stack # << >>

Settle(st) ==
    /\ stack' = Unwind(st)
    /\ status' = IF Unwind(st) = << >> THEN "done" ELSE "running"

Fail(call, injected, path) ==
    /\ status' = Surfaced(op)
    /\ cause' = [call |-> call, injected |-> injected, path |-> path]
    /\ failedMoves' = Len(moved)

Idle == UNCHANGED << subdirectories, removed, logged, fileName, dest, directory, prog, pc, events >>

\* An operation run alone meets any number of failures, one run by main those the
\* budget of the run allows.
Standalone == prog = "none"

Inject(fault) ==
    /\ fault => (Standalone \/ budget > 0)
    /\ budget' = IF fault /\ ~Standalone THEN budget - 1 ELSE budget

\* sortFiles up to its loop: a folder named .git is skipped, otherwise its
\* subdirectories are collected; a failing collection is fatal.
SortEnter ==
    /\ Sorting /\ op \notin Walkers /\ Top.phase = "enter"
    /\ \E fault \in BOOLEAN :
         /\ Inject(fault)
         /\ IF Top.folder # << >> /\ Base(Top.folder) = GIT
            THEN /\ ~fault
                 /\ Settle(SubSeq(stack, 1, Len(stack) - 1))
                 /\ UNCHANGED << cause, failedMoves >>
            ELSE IF fault
            THEN /\ Fail("Walk", TRUE, Top.folder)
                 /\ UNCHANGED stack
            ELSE /\ stack' = [stack EXCEPT ![Len(stack)].phase = "recurse",
                                           ![Len(stack)].subs =
                                               getSubdirectories(FS, Top.folder)]
                 /\ UNCHANGED << status, cause, failedMoves >>
    /\ UNCHANGED << op, files, dirs, orig, origDirs, moved >>
    /\ Idle

\* One turn of the loop over the collected subdirectories: the entry ".git" is
\* skipped, any other is sorted by a recursive call.
SortRecurse ==
    /\ Sorting /\ Top.phase = "recurse" /\ Top.subs # << >>
    /\ LET subdir == Head(Top.subs)
           rest == [stack EXCEPT ![Len(stack)].subs = Tail(@)]
       IN  stack' = IF subdir = << GIT >>
                    THEN rest
                    ELSE Append(rest, Frame(JoinPath(Top.folder, subdir)))
    /\ UNCHANGED << op, status, cause, files, dirs, orig, origDirs, moved, failedMoves,
                    budget >>
    /\ Idle

\* filepath.Walk starts on the folder: it reads the names of the folder and calls
\* the callback on the folder itself, which returns nil for a directory.
WalkStart ==
    /\ Sorting
    /\ \/ op \in Walkers /\ Top.phase = "enter"
       \/ Top.phase = "recurse" /\ Top.subs = << >>
    /\ \E fault \in BOOLEAN :
         /\ Inject(fault)
         /\ IF fault \/ ~IsDir(FS, Top.folder)
            THEN /\ Fail("Walk", fault, Top.folder)
                 /\ UNCHANGED stack
            ELSE /\ Settle([stack EXCEPT ![Len(stack)].phase = "walk",
                                         ![Len(stack)].walk =
                                             << [dir |-> Top.folder,
                                                 names |-> readDirNames(FS, Top.folder)] >>])
                 /\ UNCHANGED << cause, failedMoves >>
    /\ UNCHANGED << op, files, dirs, orig, origDirs, moved >>
    /\ Idle

\* The walk visits the next name of the directory it is in: a directory is entered
\* (the callback returns nil on it), a regular file is handed to the callback, and
\* an entry that cannot be read ends the walk with the error.
WalkVisit ==
    /\ Sorting /\ Top.phase = "walk"
    /\ LET cur == Top.walk[Len(Top.walk)]
           path == Append(cur.dir, Head(cur.names))
           next == [stack EXCEPT ![Len(stack)].walk[Len(Top.walk)].names = Tail(@)]
       IN  \E fault \in {"none", "Lstat", "MkdirAll", "Rename"} :
             /\ Inject(fault # "none")
             /\ IF fault = "Lstat" \/ ~Exists(FS, path)
                THEN /\ Fail("Walk", fault = "Lstat", path)
                     /\ UNCHANGED << stack, files, dirs, moved >>
                ELSE IF IsDir(FS, path)
                THEN /\ fault = "none"
                     /\ Settle([next EXCEPT ![Len(stack)].walk =
                                   Append(@, [dir |-> path,
                                              names |-> readDirNames(FS, path)])])
                     /\ UNCHANGED << cause, failedMoves, files, dirs, moved >>
                ELSE LET r == IF op = "extractFilesToPath"
                              THEN extractFn(FS, Top.folder, path, fault = "Rename")
                              ELSE walkFn(op, FS, Top.folder, path,
                                          fault = "MkdirAll", fault = "Rename")
                     IN  /\ op = "extractFilesToPath" => fault # "MkdirAll"
                         /\ files' = r.fs.files
                         /\ dirs' = r.fs.dirs
                         /\ moved' = IF r.moved
                                     THEN Append(moved, [src |-> path, dst |-> r.dst,
                                                         id |-> files[path]])
                                     ELSE moved
                         /\ cause' = IF r.failed = "none" THEN cause
                                     ELSE [call |-> r.failed, injected |-> r.injected,
                                           path |-> r.at]
                         /\ failedMoves' = IF r.failed = "none" THEN failedMoves
                                           ELSE Len(moved)
                         /\ IF r.err = "nil"
                            THEN Settle(next)
                            ELSE status' = Surfaced(op) /\ UNCHANGED stack
    /\ UNCHANGED << op, orig, origDirs >>
    /\ Idle

---------------------------------------------------------------------------
(* removeEmptySubdirectories and isDirectoryEmpty (src/enforce.go)         *)

\* isDirectoryEmpty, given how os.Open and Readdirnames(1) end: the answer and the
\* error returned.
isDirectoryEmpty(openErr, readErr) ==
    IF openErr # "nil" THEN [empty |-> FALSE, err |-> openErr]
    ELSE IF readErr = "nil" THEN [empty |-> FALSE, err |-> "nil"]
    ELSE IF readErr = "ErrNotExist" THEN [empty |-> FALSE, err |-> "nil"]
    ELSE IF readErr = "EOF" THEN [empty |-> TRUE, err |-> "nil"]
    ELSE [empty |-> FALSE, err |-> readErr]

\* isDirectoryEmpty of src/directory.go: after a failed read only the values
\* os.ErrNotExist and os.ErrPermission themselves are returned as errors, every
\* other outcome of the read is taken for an empty directory.
isDirectoryEmptyDirectoryGo(openErr, readErr) ==
    IF openErr # "nil" THEN [empty |-> FALSE, err |-> openErr]
    ELSE IF readErr = "nil" THEN [empty |-> FALSE, err |-> "nil"]
    ELSE IF readErr = "ErrNotExist" THEN [empty |-> FALSE, err |-> readErr]
    ELSE IF readErr = "ErrPermission" THEN [empty |-> FALSE, err |-> readErr]
    ELSE [empty |-> TRUE, err |-> "nil"]

\* How os.Open ends on a directory path.
OpenErr(fs, dir, fault) ==
    IF ~Exists(fs, dir) THEN "ErrNotExist"
    ELSE IF fault THEN "ErrPermission"
    ELSE "nil"

\* ReaddirnamesErr of a test that looks at the entries the directory had when the
\* walk collected it.
ReaddirnamesErr_atDiscovery(fs, dir, fault) ==
    IF fault THEN "EIO"
    ELSE IF { q \in orig \cup origDirs : Dir(q) = dir } = {} THEN "EOF"
    ELSE "nil"

\* How Readdirnames(1) ends on an open directory.
ReaddirnamesErr(fs, dir, fault) ==
    IF fault THEN "EIO"
    ELSE IF readDirNames(fs, dir) = << >> THEN "EOF"
    ELSE "nil"

Pruning == status = "running" /\ op = "removeEmptySubdirectories" /\ stack # << >>

\* The turn of a loop that goes through the collected directories first to last.
loopIndex_forward(subs) == 1

\* The turn of the loop "for i := len(subdirectories) - 1; i >= 0; i--": the last
\* collected directory not yet tested.
loopIndex(subs) == Len(subs)

\* afterTurn of a loop that steps over two directories at a time.
afterTurn_skipsOne(subs, i) == SubSeq(subs, 1, i - 2)

\* The collected directories still to test once the one at index i had its turn.
afterTurn(subs, i) == SubSeq(subs, 1, i - 1) \o SubSeq(subs, i + 1, Len(subs))

\* The walk of removeEmptySubdirectories: every directory below the folder is
\* collected in walk order; a walk that returns an error is fatal.
PruneCollect ==
    /\ Pruning /\ Top.phase = "enter"
    /\ \E fault \in BOOLEAN :
         /\ Inject(fault)
         /\ IF fault
            THEN /\ status' = "fatal"
                 /\ cause' = [call |-> "Walk", injected |-> TRUE, path |-> Top.folder]
                 /\ UNCHANGED << stack, subdirectories >>
            ELSE /\ subdirectories' =
                       [i \in 1..Len(getSubdirectories(FS, Top.folder)) |->
                           JoinPath(Top.folder, getSubdirectories(FS, Top.folder)[i])]
                 /\ stack' = [stack EXCEPT ![Len(stack)].phase = "loop"]
                 /\ UNCHANGED << status, cause >>
    /\ UNCHANGED << op, files, dirs, orig, origDirs, moved, failedMoves,
                    removed, logged, fileName, dest, directory, prog, pc, events >>

\* One turn of the loop, from the last collected directory to the first: the
\* directory is tested, an error of the test is logged, an empty directory is
\* removed, an error of the removal is logged. The loop over, the call returns.
PruneStep ==
    /\ Pruning /\ Top.phase = "loop"
    /\ IF subdirectories = << >>
       THEN /\ status' = "done"
            /\ stack' = SubSeq(stack, 1, Len(stack) - 1)
            /\ UNCHANGED << subdirectories, dirs, removed, logged, budget >>
       ELSE LET dir == subdirectories[loopIndex(subdirectories)] IN
            \E fault \in {"none", "Open", "Readdirnames", "Remove"} :
              LET r == isDirectoryEmpty(OpenErr(FS, dir, fault = "Open"),
                           ReaddirnamesErr(FS, dir, fault = "Readdirnames"))
              IN  /\ Inject(fault # "none")
                  /\ subdirectories' = afterTurn(subdirectories, loopIndex(subdirectories))
                  /\ IF r.err # "nil"
                     THEN /\ logged' = Append(logged, dir)
                          /\ UNCHANGED << dirs, removed >>
                     ELSE IF r.empty /\ fault = "Remove"
                     THEN /\ logged' = Append(logged, dir)
                          /\ UNCHANGED << dirs, removed >>
                     ELSE IF r.empty
                     THEN /\ dirs' = dirs \ {dir}
                          /\ removed' = Append(removed, dir)
                          /\ UNCHANGED logged
                     ELSE /\ fault = "none"
                          /\ UNCHANGED << dirs, removed, logged >>
                  /\ UNCHANGED << status, stack >>
    /\ UNCHANGED << op, cause, files, orig, origDirs, moved, failedMoves,
                    fileName, dest, directory, prog, pc, events >>

\* Another process removes a collected directory, with everything in it, after the
\* walk and before the directory has its turn in the loop.
ExternalRemove ==
    /\ Pruning /\ Top.phase = "loop"
    /\ \E i \in 1..Len(subdirectories) :
         LET dir == subdirectories[i] IN
         /\ dir \in dirs
         /\ dirs' = { q \in dirs : ~IsPrefix(dir, q) }
         /\ files' = [q \in { x \in DOMAIN files : ~IsPrefix(dir, x) } |-> files[q]]
         /\ events' = Append(events, Event("removedExternally", "", dir))
    /\ UNCHANGED << op, status, cause, orig, origDirs, stack, moved, failedMoves,
                    subdirectories, removed, logged, fileName, dest, directory, prog, pc, budget >>

\* A path at which there is nothing.
GONE == << << "g", "o", "n", "e" >> >>

\* The definitions of isDirectoryEmpty: that of src/enforce.go and that of
\* src/directory.go.
EmptinessTests == {"isDirectoryEmpty", "isDirectoryEmptyDirectoryGo"}

\* One call of isDirectoryEmpty on a directory of the tree or on a path that does
\* not exist; os.Open or the read may fail. What the call met and what it
\* returned is put on record.
IsDirectoryEmptyCall ==
    /\ op \in EmptinessTests /\ status = "running" /\ prog = "none"
    /\ \E dir \in dirs \cup { GONE }, fault \in {"none", "Open", "Readdirnames"} :
         LET openErr == OpenErr(FS, dir, fault = "Open")
             readErr == ReaddirnamesErr(FS, dir, fault = "Readdirnames")
             r == IF op = "isDirectoryEmpty"
                  THEN isDirectoryEmpty(openErr, readErr)
                  ELSE isDirectoryEmptyDirectoryGo(openErr, readErr)
         IN  events' = << [ev |-> "isDirectoryEmpty", what |-> op, path |-> dir,
                           open |-> openErr,
                           read |-> IF openErr = "nil" THEN readErr ELSE "none",
                           entries |-> IF openErr = "nil" /\ readErr = "nil"
                                       THEN 1 ELSE 0,
                           empty |-> r.empty, err |-> r.err] >>
    /\ status' = "done"
    /\ UNCHANGED << op, cause, files, dirs, orig, origDirs, stack, moved, failedMoves,
                    subdirectories, removed, logged, fileName, dest, directory, prog, pc, budget >>

---------------------------------------------------------------------------
(* main (src/enforce.go, old/enforce.txt)                                  *)

\* The names main gives to what it creates.
REPORT == << "r", "e", "p", "o", "r", "t" >>
LARGE == << "l", "a", "r", "g", "e" >>
STY == << "s", "t", "y" >>
NOTEBOOK == << "n", "o", "t", "e", "b", "o", "o", "k" >>
README_MD == << "R", "E", "A", "D", "M", "E", ".", "m", "d" >>
REPORT_TEX == << "r", "e", "p", "o", "r", "t", ".", "t", "e", "x" >>
GITIGNORE == << ".", "g", "i", "t", "i", "g", "n", "o", "r", "e" >>
NOTEBOOK_IPYNB == << "n", "o", "t", "e", "b", "o", "o", "k", ".", "i", "p", "y", "n", "b" >>
COLOR_D_STY == << "b", "e", "a", "m", "e", "r", "c", "o", "l", "o", "r", "t", "h", "e", "m", "e", "l", "a", "z", "y", "d", ".", "s", "t", "y" >>
COLOR_STY == << "b", "e", "a", "m", "e", "r", "c", "o", "l", "o", "r", "t", "h", "e", "m", "e", "l", "a", "z", "y", ".", "s", "t", "y" >>
FONT_STY == << "b", "e", "a", "m", "e", "r", "f", "o", "n", "t", "t", "h", "e", "m", "e", "l", "a", "z", "y", ".", "s", "t", "y" >>
OUTER_STY == << "b", "e", "a", "m", "e", "r", "o", "u", "t", "e", "r", "t", "h", "e", "m", "e", "l", "a", "z", "y", ".", "s", "t", "y" >>
INNER_STY == << "b", "e", "a", "m", "e", "r", "i", "n", "n", "e", "r", "t", "h", "e", "m", "e", "l", "a", "z", "y", ".", "s", "t", "y" >>
MAIN_STY == << "b", "e", "a", "m", "e", "r", "t", "h", "e", "m", "e", "l", "a", "z", "y", ".", "s", "t", "y" >>
HEAD == << "H", "E", "A", "D" >>

\* The instructions main is made of. A program is a sequence of them; targets of
\* jumps are relative to the instruction that jumps.
Ins(kind, path, routine, offset) ==
    [kind |-> kind, path |-> path, routine |-> routine, offset |-> offset]

\* os.MkdirAll(filepath.Join(projectPath, ...)) with panic(err) on failure.
mkdir(path) == Ins("MkdirAll", path, "", 0)

\* "for _, component := range components { os.MkdirAll(filepath.Join(base,
\* component)) }".
mkdirEach(base, components) ==
    [i \in 1..Len(components) |-> mkdir(Append(base, components[i]))]

\* "for _, component := range components { removeEmptySubdirectories(projectPath);
\* os.MkdirAll(componentPath) }".
RECURSIVE pruneAndMkdirEach(_)
pruneAndMkdirEach(components) ==
    IF components = << >> THEN << >>
    ELSE << Ins("Call", << >>, "removeEmptySubdirectories", 0),
            mkdir(<< Head(components) >>) >> \o pruneAndMkdirEach(Tail(components))

\* A create... function: the file is written unless os.Stat finds the path.
template(path) == Ins("Template", path, "", 0)

call(routine) == Ins("Call", << >>, routine, 0)

\* The six create...Sty calls, createReportTex and createGitignore, in the order
\* main makes them.
styAndReport ==
    << template(<< DOC, REPORT, STY, COLOR_D_STY >>),
       template(<< DOC, REPORT, STY, COLOR_STY >>),
       template(<< DOC, REPORT, STY, FONT_STY >>),
       template(<< DOC, REPORT, STY, OUTER_STY >>),
       template(<< DOC, REPORT, STY, INNER_STY >>),
       template(<< DOC, REPORT, STY, MAIN_STY >>),
       template(<< DOC, REPORT, REPORT_TEX >>),
       template(<< GITIGNORE >>) >>

\* components of main in src/enforce.go.
components == << DOC, SRC, JOB, DATA, REF, EG >>

\* components of main in old/enforce.txt.
componentsOld == << DOC, SRC, JOB, DATA, REF, MEDIA, BIN >>

\* The scaffold creation of main in src/enforce.go (lines 52-93).
scaffold ==
    mkdirEach(<< >>, components)
    \o << mkdir(<< DOC, REPORT >>) >>
    \o mkdirEach(<< DOC, REPORT >>, components)
    \o << Ins("WriteFile", << EG, README_MD >>, "", 0),
          mkdir(<< DATA, LARGE >>) >>

\* The scaffold creation of main in old/enforce.txt (lines 70-94).
scaffoldOld ==
    mkdirEach(<< >>, componentsOld)
    \o << mkdir(<< DOC, REPORT >>) >>
    \o mkdirEach(<< DOC, REPORT >>, componentsOld)

\* main of src/enforce.go once the project directory is known to exist.
mainBody ==
    scaffold
    \o << call("removeEmptySubdirectories") >>
    \o pruneAndMkdirEach(components)
    \o << mkdir(<< JOB >>),
          template(<< README_MD >>),
          mkdir(<< DOC, REPORT, STY >>) >>
    \o styAndReport
    \o << mkdir(<< EG, NOTEBOOK >>),
          template(<< EG, NOTEBOOK, NOTEBOOK_IPYNB >>),
          Ins("IfNoGit", << GIT >>, "", 5),
          call("removeEmptySubdirectories"),
          call("sortFiles"),
          Ins("GitInit", << GIT >>, "", 0),
          Ins("Jump", << >>, "", 2),
          call("removeEmptySubdirectories") >>

\* main of old/enforce.txt once the project directory is known to exist.
mainBodyOld ==
    << Ins("IfNoGit", << GIT >>, "", 3),
       call("extractFilesToPath"),
       Ins("RenameFiles", << >>, "", 0) >>
    \o scaffoldOld
    \o pruneAndMkdirEach(componentsOld)
    \o << mkdir(<< DOC, NOTEBOOK >>),
          template(<< DOC, NOTEBOOK, NOTEBOOK_IPYNB >>),
          Ins("IfNoGit", << GIT >>, "", 5),
          call("removeEmptySubdirectories"),
          call("sortFilesLater"),
          call("removeEmptySubdirectories"),
          Ins("Jump", << >>, "", 2),
          call("removeEmptySubdirectories"),
          template(<< README_MD >>),
          mkdir(<< DOC, REPORT, STY >>) >>
    \o styAndReport
    \o mkdirEach(<< >>, componentsOld)
    \o << call("removeEmptySubdirectories"),
          Ins("IfNoGit", << GIT >>, "", 2),
          Ins("GitInit", << GIT >>, "", 0) >>

\* The selection of the project directory and the test that it exists, with which
\* both programs begin.
selection == << Ins("Browse", << >>, "", 0), Ins("Stat", << >>, "", 0) >>

\* The programs that run main or its scaffold creation.
MainPrograms == {"main", "mainOld", "scaffoldTwice", "scaffoldOldTwice"}

\* The programs that run a relocation pass twice: sortFiles of src/enforce.go and
\* sortFiles of old/enforce.txt on the tree their first run left, and sortFiles
\* of old/enforce.txt and FileSorter.Execute each on the same tree.
SortPrograms == {"sortFilesTwice", "sortFilesLaterTwice", "sortFilesThenExecute"}

\* The program that runs removeEmptySubdirectories twice in a row.
PrunePrograms == {"removeEmptySubdirectoriesTwice"}

\* The programs: the two mains, the scaffold creation of each run twice over, and
\* the relocation passes and the removal of empty directories run twice.
Programs ==
    [p \in MainPrograms \cup SortPrograms \cup PrunePrograms |->
        IF p = "main" THEN selection \o mainBody
        ELSE IF p = "mainOld" THEN selection \o mainBodyOld
        ELSE IF p = "scaffoldTwice"
        THEN scaffold \o << Ins("Mark", << >>, "", 0) >> \o scaffold
        ELSE IF p = "scaffoldOldTwice"
        THEN scaffoldOld \o << Ins("Mark", << >>, "", 0) >> \o scaffoldOld
        ELSE IF p = "removeEmptySubdirectoriesTwice"
        THEN << call("removeEmptySubdirectories"), Ins("Mark", << >>, "", 0),
                call("removeEmptySubdirectories") >>
        ELSE IF p = "sortFilesTwice"
        THEN << call("sortFiles"), Ins("Mark", << >>, "", 0), call("sortFiles") >>
        ELSE IF p = "sortFilesLaterTwice"
        THEN << call("sortFilesLater"), Ins("Mark", << >>, "", 0),
                call("sortFilesLater") >>
        ELSE << call("sortFilesLater"), Ins("Mark", << >>, "", 0),
                Ins("Restore", << >>, "", 0), call("Execute") >>]

\* The instructions of a program; past the last one main returns.
Program(p) == Programs[p]

\* transformFileName: white space and hyphens become underscores, letters become
\* lower case, and a run of underscores becomes one underscore.
RECURSIVE collapseUnderscores(_)
collapseUnderscores(s) ==
    IF Len(s) < 2 THEN s
    ELSE IF s[1] = "_" /\ s[2] = "_" THEN collapseUnderscores(Tail(s))
    ELSE << s[1] >> \o collapseUnderscores(Tail(s))

transformFileName(name) ==
    collapseUnderscores(
        ToLower([i \in 1..Len(name) |->
                     IF name[i] \in PerlSpace \cup {"-"} THEN "_" ELSE name[i]]))

\* The loop of main in old/enforce.txt over the entries ioutil.ReadDir returned
\* (names): a regular file whose transformed name differs is renamed, a failing
\* rename is reported and the loop goes on.
RECURSIVE renameEach(_, _)
renameEach(fs, names) ==
    IF names = << >> THEN fs
    ELSE LET oldFilePath == << Head(names) >>
             newFilePath == << transformFileName(Head(names)) >>
         IN  IF oldFilePath \in fs.dirs \/ oldFilePath = newFilePath
                \/ ~RenameOk(fs, oldFilePath, newFilePath)
             THEN renameEach(fs, Tail(names))
             ELSE renameEach(Rename(fs, oldFilePath, newFilePath), Tail(names))

\* What a template file holds once main has written it.
TemplateContent(path) == << << "#" >> >> \o path

\* os.WriteFile and os.Create succeed when the directory of the path exists and the
\* path is not a directory.
CreateOk(fs, path) == IsDir(fs, Dir(path)) /\ path \notin fs.dirs

\* The file is created, or truncated, and the content written.
WriteFile(fs, path) ==
    [fs EXCEPT !.files = [q \in DOMAIN fs.files \cup {path} |->
                             IF q = path THEN TemplateContent(path) ELSE fs.files[q]]]

Main == prog # "none" /\ op = "main" /\ status = "running"

AtIns(kind) == Main /\ pc <= Len(Program(prog)) /\ Program(prog)[pc].kind = kind

Cur == Program(prog)[pc]

\* What main leaves alone in the steps that are its own.
MainIdle == UNCHANGED << orig, origDirs, stack, moved, failedMoves, subdirectories,
                         removed, logged, fileName, dest, directory, prog >>

\* "if err != nil" after Browse: the selection was cancelled.
browseFailed(result) == result = "cancel"

\* A test of the project path that accepts any path.
projectMissing_neverMissing(result) == FALSE

\* "os.IsNotExist(err)" after os.Stat(projectPath).
projectMissing(result) == result = "missing"

\* dialog.Directory().Browse(): the user cancels, or gives a path that does not
\* exist, or selects the project directory.
MainBrowse ==
    /\ AtIns("Browse")
    /\ \E result \in {"cancel", "missing", "selected"} :
         /\ events' = Append(events, Event("Browse", result, << >>))
         /\ IF browseFailed(result)
            THEN status' = "done" /\ UNCHANGED pc
            ELSE pc' = pc + 1 /\ UNCHANGED status
    /\ UNCHANGED << op, cause, files, dirs, budget >>
    /\ MainIdle

\* os.Stat(projectPath): main returns when the path does not exist.
MainStat ==
    /\ AtIns("Stat")
    /\ IF projectMissing(events[Len(events)].what)
       THEN status' = "done" /\ UNCHANGED pc
       ELSE pc' = pc + 1 /\ UNCHANGED status
    /\ UNCHANGED << op, cause, files, dirs, budget, events >>
    /\ MainIdle

\* os.MkdirAll in main: panic(err) when it fails.
MainMkdirAll ==
    /\ AtIns("MkdirAll")
    /\ \E fault \in BOOLEAN :
         /\ Inject(fault)
         /\ IF fault \/ ~MkdirAllOk(FS, Cur.path)
            THEN /\ status' = "panic"
                 /\ cause' = [call |-> "MkdirAll", injected |-> fault, path |-> Cur.path]
                 /\ UNCHANGED << dirs, pc >>
            ELSE /\ dirs' = MkdirAll(FS, Cur.path).dirs
                 /\ pc' = pc + 1
                 /\ UNCHANGED << status, cause >>
    /\ UNCHANGED << op, files, events >>
    /\ MainIdle

\* os.WriteFile of eg/README.md in main of src/enforce.go: the file is written
\* whether it exists or not, panic(err) when the write fails.
MainWriteFile ==
    /\ AtIns("WriteFile")
    /\ \E fault \in BOOLEAN :
         /\ Inject(fault)
         /\ IF fault \/ ~CreateOk(FS, Cur.path)
            THEN /\ status' = "panic"
                 /\ cause' = [call |-> "WriteFile", injected |-> fault, path |-> Cur.path]
                 /\ UNCHANGED << files, pc, events >>
            ELSE /\ files' = WriteFile(FS, Cur.path).files
                 /\ events' = Append(events,
                                  Event("write",
                                        IF Cur.path \in DOMAIN files THEN "overwrite"
                                        ELSE "create", Cur.path))
                 /\ pc' = pc + 1
                 /\ UNCHANGED << status, cause >>
    /\ UNCHANGED << op, dirs >>
    /\ MainIdle

\* "if _, err := os.Stat(filePath); err == nil": the create... functions write
\* only a file that os.Stat does not find.
templateWrites(fs, path) == ~Exists(fs, path)

\* generateREADME and the create... functions: a file that exists is reported and
\* left alone, otherwise it is created and written; main prints the error, if any,
\* and goes on.
MainTemplate ==
    /\ AtIns("Template")
    /\ \E fault \in BOOLEAN :
         /\ Inject(fault)
         /\ IF ~templateWrites(FS, Cur.path)
            THEN /\ ~fault
                 /\ events' = Append(events,
                                  Event("message", "file already exists", Cur.path))
                 /\ UNCHANGED files
            ELSE IF fault \/ ~CreateOk(FS, Cur.path)
            THEN /\ events' = Append(events,
                                  Event("message", "failed to create file", Cur.path))
                 /\ UNCHANGED files
            ELSE /\ files' = WriteFile(FS, Cur.path).files
                 /\ events' = Append(events,
                                  Event("write",
                                        IF Cur.path \in DOMAIN files THEN "overwrite"
                                        ELSE "create", Cur.path))
    /\ pc' = pc + 1
    /\ UNCHANGED << op, status, cause, dirs >>
    /\ MainIdle

\* main calls removeEmptySubdirectories, sortFiles or extractFilesToPath on the
\* project directory.
MainCall ==
    /\ AtIns("Call")
    /\ op' = Cur.routine
    /\ stack' = << Frame(<< >>) >>
    /\ subdirectories' = << >>
    /\ events' = Append(events, Event("call", Cur.routine, << >>))
    /\ pc' = pc + 1
    /\ UNCHANGED << status, cause, files, dirs, orig, origDirs, moved, failedMoves,
                    removed, logged, fileName, dest, directory, prog, budget >>

\* The routine main called returns; the error extractFilesToPath returns is
\* printed and main goes on.
MainResume ==
    /\ prog # "none" /\ op # "main"
    /\ status = "done" \/ (op = "extractFilesToPath" /\ status = "error")
    /\ op' = "main"
    /\ status' = "running"
    /\ events' = Append(events, Event("returned", op, << >>))
    /\ UNCHANGED << pc, cause, files, dirs, budget >>
    /\ MainIdle

\* "if _, err := os.Stat(gitPath); os.IsNotExist(err) { ... } else { ... }".
MainIfNoGit ==
    /\ AtIns("IfNoGit")
    /\ events' = Append(events,
                     Event("gitcheck",
                           IF Exists(FS, Cur.path) THEN "present" ELSE "absent",
                           Cur.path))
    /\ pc' = IF Exists(FS, Cur.path) THEN pc + Cur.offset ELSE pc + 1
    /\ UNCHANGED << op, status, cause, files, dirs, budget >>
    /\ MainIdle

\* The end of the branch taken: control passes over the other branch.
MainJump ==
    /\ AtIns("Jump")
    /\ pc' = pc + Cur.offset
    /\ UNCHANGED << op, status, cause, files, dirs, budget, events >>
    /\ MainIdle

\* How main goes on after a git init whose error is not looked at.
afterGitInit_ignoresError(failed) == "running"

\* "err = cmd.Run(); if err != nil { panic(err) }".
afterGitInit(failed) == IF failed THEN "panic" ELSE "running"

\* exec.Command("git", "-C", projectPath, "init").Run(): git creates .git with its
\* files in it, or fails.
MainGitInit ==
    /\ AtIns("GitInit")
    /\ \E fault \in BOOLEAN :
         /\ Inject(fault)
         /\ status' = afterGitInit(fault)
         /\ IF fault
            THEN /\ events' = Append(events, Event("gitinit", "failed", Cur.path))
                 /\ cause' = [call |-> "git init", injected |-> TRUE, path |-> Cur.path]
                 /\ UNCHANGED << files, dirs >>
            ELSE /\ events' = Append(events, Event("gitinit", "ok", Cur.path))
                 /\ dirs' = dirs \cup { Cur.path }
                 /\ files' = WriteFile([files |-> files, dirs |-> dirs \cup { Cur.path }],
                                       Append(Cur.path, HEAD)).files
                 /\ UNCHANGED cause
    /\ pc' = pc + 1
    /\ UNCHANGED op
    /\ MainIdle

\* ioutil.ReadDir(projectPath) and the loop that renames the regular files of the
\* project directory; main returns when the directory cannot be read.
MainRenameFiles ==
    /\ AtIns("RenameFiles")
    /\ \E fault \in BOOLEAN :
         /\ Inject(fault)
         /\ IF fault
            THEN /\ status' = "done"
                 /\ UNCHANGED << files, pc >>
            ELSE /\ files' = renameEach(FS, readDirNames(FS, << >>)).files
                 /\ pc' = pc + 1
                 /\ UNCHANGED status
    /\ UNCHANGED << op, cause, dirs, events >>
    /\ MainIdle

\* Between two runs of the scaffold creation: what the first run left is noted.
MainMark ==
    /\ AtIns("Mark")
    /\ events' = Append(events, [ev |-> "mark", what |-> "", path |-> << >>, fs |-> FS])
    /\ pc' = pc + 1
    /\ UNCHANGED << op, status, cause, files, dirs, budget >>
    /\ MainIdle

\* Between the runs of two passes that are given the same tree: the tree is again
\* as it was at the start.
MainRestore ==
    /\ AtIns("Restore")
    /\ files' = [f \in orig |-> f]
    /\ dirs' = origDirs
    /\ events' = Append(events, Event("restore", "", << >>))
    /\ pc' = pc + 1
    /\ UNCHANGED << op, status, cause, budget >>
    /\ MainIdle

\* main returns after its last statement.
MainReturn ==
    /\ Main /\ pc > Len(Program(prog))
    /\ status' = "done"
    /\ UNCHANGED << op, pc, cause, files, dirs, budget, events >>
    /\ MainIdle

---------------------------------------------------------------------------
(* FileOperation (src/command.go), Directory and RecursiveDirectory        *)
(* (src/directory.go)                                                      *)

\* The operations and their fields; id stands for the identity of the value, by
\* which two operations with the same fields differ.
MoveFileOperation(id, sourcePath, destPath) ==
    [id |-> id, kind |-> "MoveFile", path |-> sourcePath, destPath |-> destPath]

RenameFileOperation(id, filePath) ==
    [id |-> id, kind |-> "RenameFile", path |-> filePath, destPath |-> << >>]

CreateDirectoryOperation(id, dirPath) ==
    [id |-> id, kind |-> "CreateDirectory", path |-> dirPath, destPath |-> << >>]

RemoveDirectoryOperation(id, dirPath) ==
    [id |-> id, kind |-> "RemoveDirectory", path |-> dirPath, destPath |-> << >>]

\* A RecursiveDirectory on a new Directory with this path.
Directory(path) == [path |-> path, operations |-> << >>, subdirectories |-> << >>]

\* "d.operations = append(d.operations, op)"
AddOperation(d, o) == [d EXCEPT !.operations = Append(@, o)]

\* "r.subdirectories = append(r.subdirectories, dir)"
AddSubdirectory(r, dir) == [r EXCEPT !.subdirectories = Append(@, dir)]

\* os.Rename of a regular file to any path: the directory of the new path has to
\* exist besides.
MoveOk(fs, oldpath, newpath) == RenameOk(fs, oldpath, newpath) /\ IsDir(fs, Dir(newpath))

\* os.Remove succeeds on a regular file and on a directory without entries.
RemoveOk(fs, path) ==
    \/ path \in DOMAIN fs.files
    \/ path \in fs.dirs /\ readDirNames(fs, path) = << >>

\* os.Remove
Remove(fs, path) ==
    [files |-> [q \in DOMAIN fs.files \ {path} |-> fs.files[q]],
     dirs |-> fs.dirs \ {path}]

\* newFilePath of RenameFileOperation.Execute.
newFilePath(oldFilePath) ==
    JoinPath(Dir(oldFilePath), << transformFileName(Base(oldFilePath)) >>)

\* "if oldFilePath != newFilePath"
needsRename(oldFilePath) == oldFilePath # newFilePath(oldFilePath)

\* Execute of the four operations; fault is the environment making the system
\* call fail. The result: whether an error is returned, whether os.Rename was
\* called, and the file system left behind.
Execute(o, fs, fault) ==
    IF o.kind = "MoveFile"
    THEN IF fault \/ ~MoveOk(fs, o.path, o.destPath)
         THEN [err |-> TRUE, called |-> TRUE, fs |-> fs]
         ELSE [err |-> FALSE, called |-> TRUE, fs |-> Rename(fs, o.path, o.destPath)]
    ELSE IF o.kind = "RenameFile"
    THEN IF ~needsRename(o.path)
         THEN [err |-> FALSE, called |-> FALSE, fs |-> fs]
         ELSE IF fault \/ ~MoveOk(fs, o.path, newFilePath(o.path))
         THEN [err |-> TRUE, called |-> TRUE, fs |-> fs]
         ELSE [err |-> FALSE, called |-> TRUE,
               fs |-> Rename(fs, o.path, newFilePath(o.path))]
    ELSE IF o.kind = "CreateDirectory"
    THEN IF fault \/ ~MkdirAllOk(fs, o.path)
         THEN [err |-> TRUE, called |-> FALSE, fs |-> fs]
         ELSE [err |-> FALSE, called |-> FALSE, fs |-> MkdirAll(fs, o.path)]
    ELSE IF fault \/ ~RemoveOk(fs, o.path)
         THEN [err |-> TRUE, called |-> FALSE, fs |-> fs]
         ELSE [err |-> FALSE, called |-> FALSE, fs |-> Remove(fs, o.path)]

\* A call of RecursiveDirectory.ExecuteOperations on r: the operation of r and the
\* subdirectory of r that come next.
ExecuteOperationsFrame(r) == [dir |-> r, i |-> 1, j |-> 1]

\* turn of an ExecuteOperations that goes through the subdirectories before the
\* operations of the directory itself.
turn_subdirectoriesFirst(frame) ==
    IF frame.j <= Len(frame.dir.subdirectories) THEN "subdirectory"
    ELSE IF frame.i <= Len(frame.dir.operations) THEN "operation"
    ELSE "return"

\* What a call of RecursiveDirectory.ExecuteOperations does next: the operations
\* of the embedded Directory in order, then the subdirectories in order, then it
\* returns nil.
turn(frame) ==
    IF frame.i <= Len(frame.dir.operations) THEN "operation"
    ELSE IF frame.j <= Len(frame.dir.subdirectories) THEN "subdirectory"
    ELSE "return"

Executing == op = "ExecuteOperations" /\ status = "running" /\ stack # << >>

\* One turn of the loop of Directory.ExecuteOperations: the operation is executed;
\* its error, if any, is returned at once by this call and by every call above it.
DirectoryExecuteOperations ==
    /\ Executing /\ turn(Top) = "operation"
    /\ \E fault \in BOOLEAN :
         LET o == Top.dir.operations[Top.i]
             r == Execute(o, FS, fault)
         IN  /\ Inject(fault)
             /\ files' = r.fs.files
             /\ dirs' = r.fs.dirs
             /\ events' = Append(events, [ev |-> "Execute", what |-> o.kind,
                                          path |-> o.path, id |-> o.id,
                                          err |-> r.err, called |-> r.called])
             /\ IF r.err
                THEN /\ status' = "error"
                     /\ stack' = << >>
                     /\ cause' = [call |-> o.kind, injected |-> fault, path |-> o.path]
                ELSE /\ stack' = [stack EXCEPT ![Len(stack)].i = @ + 1]
                     /\ UNCHANGED << status, cause >>
    /\ UNCHANGED << op, orig, origDirs, moved, failedMoves, subdirectories, removed,
                    logged, fileName, dest, directory, prog, pc >>

\* One turn of the loop of RecursiveDirectory.ExecuteOperations over the
\* subdirectories: ExecuteOperations is called on the subdirectory.
SubdirectoryExecuteOperations ==
    /\ Executing /\ turn(Top) = "subdirectory"
    /\ stack' = Append([stack EXCEPT ![Len(stack)].j = @ + 1],
                       ExecuteOperationsFrame(Top.dir.subdirectories[Top.j]))
    /\ UNCHANGED << op, status, cause, files, dirs, orig, origDirs, moved, failedMoves,
                    subdirectories, removed, logged, fileName, dest, directory,
                    prog, pc, budget, events >>

\* "return nil": the call returns to the loop of the call above it, the outermost
\* call to its caller.
ExecuteOperationsReturn ==
    /\ Executing /\ turn(Top) = "return"
    /\ stack' = SubSeq(stack, 1, Len(stack) - 1)
    /\ status' = IF Len(stack) = 1 THEN "done" ELSE "running"
    /\ UNCHANGED << op, cause, files, dirs, orig, origDirs, moved, failedMoves,
                    subdirectories, removed, logged, fileName, dest, directory,
                    prog, pc, budget, events >>

---------------------------------------------------------------------------
(* The classifier alone                                                    *)

Classifying == op = "classify"

\* The switches are applied to the file name at hand.
Classify ==
    /\ Classifying /\ status = "running"
    /\ dest' = [early |-> destFolderEarly(fileName), later |-> destFolderLater(fileName)]
    /\ status' = "done"
    /\ UNCHANGED << op, cause, files, dirs, orig, origDirs, stack, moved, failedMoves,
                    subdirectories, removed, logged, fileName, directory, prog, pc, budget, events >>

---------------------------------------------------------------------------
(* The trees and file names the runs start from                            *)

MaxFiles == 2
MaxDirs == 1
MaxStemLen == 2

SUB == << "s", "u", "b" >>
DEEP == << "d", "e", "e", "p" >>
HOOKS == << "h", "o", "o", "k", "s" >>
REFS == << "r", "e", "f", "s" >>
OLD == << "o", "l", "d" >>

\* Regular files a tree may hold.
CandidateFiles ==
    { << << "a", ".", "p", "d", "f" >> >>,
      << SUB, << "a", ".", "p", "d", "f" >> >>,
      << REF, << "a" >>, << "a", ".", "p", "d", "f" >> >>,
      << SUB, DEEP, << "b", ".", "p", "y" >> >>,
      << GIT, << "c", ".", "t", "x", "t" >> >>,
      << GIT, HOOKS, << "d", ".", "p", "y" >> >>,
      << SUB, GIT, << "e", ".", "m", "d" >> >>,
      << << ".", ".", ".", "p", "y" >> >>,
      << DATA >>,
      << << "q" >> >> }

\* Directories a tree may hold besides those its files are in.
CandidateDirs ==
    { << OLD >>,
      << << "p" >>, << "q" >> >>,
      << GIT, REFS >>,
      << DATA, << "q" >> >> }

Ancestors(S) == UNION { Prefixes(Dir(q)) : q \in S }

\* A tree: no regular file where a directory is required.
WellFormed(F, D) == \A f \in F : f \notin D \cup Ancestors(F \cup D)

TreeInit(ops) ==
    /\ op \in ops
    /\ \E F \in SUBSET CandidateFiles, D \in SUBSET CandidateDirs :
         /\ Cardinality(F) <= MaxFiles
         /\ Cardinality(D) <= MaxDirs
         /\ WellFormed(F, D)
         /\ files = [f \in F |-> f]
         /\ dirs = D \cup Ancestors(F \cup D)
         /\ orig = F
         /\ origDirs = D \cup Ancestors(F \cup D)
    /\ status = "running"
    /\ cause = NoCause
    /\ stack = << Frame(<< >>) >>
    /\ moved = << >>
    /\ failedMoves = 0
    /\ subdirectories = << >>
    /\ removed = << >>
    /\ logged = << >>
    /\ fileName = << >>
    /\ dest = [early |-> << >>, later |-> << >>]
    /\ directory = NoDirectory
    /\ prog = "none"
    /\ pc = 0
    /\ budget = 0
    /\ events = << >>

\* The stems and extensions file names are built from.
StemChars == { "a", "." }

RECURSIVE StringsUpTo(_)
StringsUpTo(n) ==
    IF n = 0 THEN { << >> }
    ELSE StringsUpTo(n - 1) \cup
         { Append(s, c) : s \in { t \in StringsUpTo(n - 1) : Len(t) = n - 1 },
                          c \in StemChars }

RuleExtensions ==
    caseRefEarly \cup caseDocEarly \cup caseEgEarly \cup caseSrcEarly \cup
    caseDocLater \cup caseJobLater \cup caseMediaLater \cup caseSrcLater \cup
    caseBinLater

Capitalized(e) == [i \in 1..Len(e) |-> IF i = 2 THEN ToUpperChar(e[i]) ELSE e[i]]

Extensions ==
    RuleExtensions \cup { ToUpper(e) : e \in RuleExtensions }
                   \cup { Capitalized(e) : e \in RuleExtensions }
                   \cup { << >>, << "." >>, << ".", "x", "y", "z" >>,
                          << ".", "g", "i", "t", "i", "g", "n", "o", "r", "e" >>,
                          << ".", "p", "d", "f", "x" >>, << ".", "p", "d" >> }

\* The file names to classify: every stem with every extension, except the names
\* no file can have.
FileNames ==
    { s \o e : s \in StringsUpTo(MaxStemLen), e \in Extensions } \ { << >>, Dot, DotDot }

ClassifyInit ==
    /\ op = "classify"
    /\ fileName \in FileNames
    /\ status = "running"
    /\ dest = [early |-> << >>, later |-> << >>]
    /\ directory = NoDirectory
    /\ cause = NoCause
    /\ files = << >>
    /\ dirs = {}
    /\ orig = {}
    /\ origDirs = {}
    /\ stack = << >>
    /\ moved = << >>
    /\ failedMoves = 0
    /\ subdirectories = << >>
    /\ removed = << >>
    /\ logged = << >>
    /\ prog = "none"
    /\ pc = 0
    /\ budget = 0
    /\ events = << >>

\* The failures the environment may cause in one run of main.
MaxFaults == 1

A_PDF == << "a", ".", "p", "d", "f" >>
B_PY == << "b", ".", "p", "y" >>
C_MP4 == << "c", ".", "m", "p", "4" >>
D_XYZ == << "d", ".", "x", "y", "z" >>
A_B_PDF == << "A", "-", "B", ".", "P", "D", "F" >>

\* The project directories main is run on: files and an empty directory in the
\* project directory, the same in a git repository, a project that has its
\* template files, an empty project, a regular file named as a scaffold
\* directory, and a file in a subdirectory whose name is not in the canonical
\* form.
MainTrees ==
    { [files |-> { << A_PDF >>, << B_PY >>, << C_MP4 >>, << D_XYZ >> },
       dirs |-> { << OLD >> }],
      [files |-> { << A_PDF >>, << B_PY >>, << C_MP4 >>, << D_XYZ >>, << GIT, HEAD >> },
       dirs |-> { << OLD >> }],
      [files |-> { << EG, README_MD >>, << README_MD >>, << GITIGNORE >>,
                   << DOC, REPORT, REPORT_TEX >> },
       dirs |-> {}],
      [files |-> { << EG, README_MD >>, << README_MD >>, << GIT, HEAD >> },
       dirs |-> {}],
      [files |-> {}, dirs |-> {}],
      [files |-> { << SRC >> }, dirs |-> {}],
      [files |-> { << SUB, A_B_PDF >> }, dirs |-> { << << "p" >>, << "q" >> >> }] }

MainInit ==
    /\ prog \in MainPrograms
    /\ \E t \in MainTrees :
         /\ files = [f \in t.files |-> f]
         /\ dirs = t.dirs \cup Ancestors(t.files \cup t.dirs)
         /\ orig = t.files
         /\ origDirs = t.dirs \cup Ancestors(t.files \cup t.dirs)
    /\ op = "main"
    /\ status = "running"
    /\ pc = 1
    /\ budget = MaxFaults
    /\ events = << >>
    /\ cause = NoCause
    /\ stack = << >>
    /\ moved = << >>
    /\ failedMoves = 0
    /\ subdirectories = << >>
    /\ removed = << >>
    /\ logged = << >>
    /\ fileName = << >>
    /\ dest = [early |-> << >>, later |-> << >>]
    /\ directory = NoDirectory

X_EXE == << "x", ".", "e", "x", "e" >>
Y_EXE == << "y", ".", "e", "x", "e" >>
N_TXT == << "n", ".", "t", "x", "t" >>
E_MD == << "e", ".", "m", "d" >>

\* Regular files, none of them beneath .git, for the trees the relocation passes
\* are run twice on: files in the project directory and below it, two that go to
\* the same folder, two of the same name, one named as a destination folder, and
\* files that lie where a table puts them.
RunFiles ==
    { << X_EXE >>,
      << SUB, Y_EXE >>,
      << A_PDF >>,
      << SUB, A_PDF >>,
      << SUB, DOC >>,
      << SUB, DEEP, B_PY >>,
      << D_XYZ >>,
      << DOC, << "n" >>, N_TXT >>,
      << DATA, E_MD >> }

RunDirs == { << OLD >> }

\* The start of a run of one of the programs on a tree of files and directories
\* taken from the given ones, in which the environment may cause the given number
\* of failures.
RunsInit(programs, F0, D0, faults) ==
    /\ prog \in programs
    /\ \E F \in SUBSET F0, D \in SUBSET D0 :
         /\ Cardinality(F) <= MaxFiles
         /\ Cardinality(D) <= MaxDirs
         /\ WellFormed(F, D)
         /\ files = [f \in F |-> f]
         /\ dirs = D \cup Ancestors(F \cup D)
         /\ orig = F
         /\ origDirs = D \cup Ancestors(F \cup D)
    /\ op = "main"
    /\ status = "running"
    /\ pc = 1
    /\ budget = faults
    /\ events = << >>
    /\ cause = NoCause
    /\ stack = << >>
    /\ moved = << >>
    /\ failedMoves = 0
    /\ subdirectories = << >>
    /\ removed = << >>
    /\ logged = << >>
    /\ fileName = << >>
    /\ dest = [early |-> << >>, later |-> << >>]
    /\ directory = NoDirectory

SortRunsInit == RunsInit(SortPrograms, RunFiles, RunDirs, 0)

PruneRunsInit == RunsInit(PrunePrograms, CandidateFiles, CandidateDirs, MaxFaults)

A_B_PDF_LOWER == << "a", "_", "b", ".", "p", "d", "f" >>

\* The RecursiveDirectory values ExecuteOperations is called on, built as a caller
\* builds them with AddOperation and AddSubdirectory: one whose operations all
\* succeed on a project holding a.pdf, sub/A-B.PDF and the empty old/; one whose
\* first operation fails; one in which an operation of a subdirectory fails with
\* operations and a subdirectory still to come; one with directories that have no
\* operation and an operation that fails in the last subdirectory; one without
\* subdirectories; and one whose subdirectories are each inside the one before.
Plans ==
    LET create == CreateDirectoryOperation(1, << DOC, REPORT >>)
        removeOld == RemoveDirectoryOperation(2, << OLD >>)
        rename == RenameFileOperation(3, << SUB, A_B_PDF >>)
        moveRenamed == MoveFileOperation(4, << SUB, A_B_PDF_LOWER >>,
                                         << DOC, REPORT, A_B_PDF_LOWER >>)
        move == MoveFileOperation(5, << A_PDF >>, << DOC, A_PDF >>)
        renameSame == RenameFileOperation(6, << A_PDF >>)
        removeSub == RemoveDirectoryOperation(7, << SUB >>)
        removeOldAgain == RemoveDirectoryOperation(8, << OLD >>)
        root == Directory(<< >>)
        sub == Directory(<< SUB >>)
        deep == Directory(<< SUB, DEEP >>)
        doc == Directory(<< DOC >>)
    IN  { AddSubdirectory(
              AddSubdirectory(
                  AddOperation(AddOperation(root, create), removeOld),
                  AddSubdirectory(AddOperation(sub, rename),
                                  AddOperation(deep, moveRenamed))),
              AddOperation(AddOperation(AddOperation(doc, move), renameSame),
                           removeSub)),
          AddSubdirectory(AddOperation(root, move), AddOperation(doc, create)),
          AddSubdirectory(
              AddSubdirectory(
                  AddOperation(root, create),
                  AddOperation(AddOperation(sub, removeSub), removeOld)),
              AddOperation(doc, rename)),
          AddSubdirectory(
              AddSubdirectory(
                  root,
                  AddSubdirectory(sub, AddOperation(deep, removeOld))),
              AddOperation(AddOperation(doc, removeOldAgain), create)),
          AddOperation(AddOperation(AddOperation(AddOperation(
              root, rename), create), moveRenamed), removeSub),
          AddSubdirectory(
              AddOperation(root, renameSame),
              AddSubdirectory(
                  AddOperation(sub, rename),
                  AddSubdirectory(
                      AddOperation(AddOperation(deep, removeSub), create),
                      AddOperation(AddOperation(doc, move), removeOld)))) }

\* The project directories the operations are executed on.
OperationTrees ==
    { [files |-> { << A_PDF >>, << SUB, A_B_PDF >> }, dirs |-> { << OLD >> }],
      [files |-> { << A_PDF >> }, dirs |-> {}],
      [files |-> { << A_PDF >>, << SUB, A_B_PDF >>, << DOC >> }, dirs |-> {}],
      [files |-> { << A_PDF >>, << SUB, A_B_PDF >>, << SUB, X_EXE >> },
       dirs |-> { << OLD >>, << DOC, REPORT >> }],
      [files |-> { << A_PDF >>, << SUB, A_B_PDF >>, << OLD, D_XYZ >> }, dirs |-> {}] }

OperationsInit ==
    /\ op = "ExecuteOperations"
    /\ directory \in Plans
    /\ stack = << ExecuteOperationsFrame(directory) >>
    /\ \E t \in OperationTrees :
         /\ files = [f \in t.files |-> f]
         /\ dirs = t.dirs \cup Ancestors(t.files \cup t.dirs)
         /\ orig = t.files
         /\ origDirs = t.dirs \cup Ancestors(t.files \cup t.dirs)
    /\ status = "running"
    /\ cause = NoCause
    /\ moved = << >>
    /\ failedMoves = 0
    /\ subdirectories = << >>
    /\ removed = << >>
    /\ logged = << >>
    /\ fileName = << >>
    /\ dest = [early |-> << >>, later |-> << >>]
    /\ prog = "none"
    /\ pc = 0
    /\ budget = 0
    /\ events = << >>

\* The longest file name RenameFileOperation is tried on.
MaxNameLen == 3

\* The characters those names are made of: a letter in both cases, the characters
\* transformFileName replaces, and white space of other kinds.
NameChars == { "a", "A", " ", "-", "_", "\t", VT, NBSP }

RECURSIVE NamesUpTo(_)
NamesUpTo(n) ==
    IF n = 0 THEN { << >> }
    ELSE NamesUpTo(n - 1) \cup
         { Append(s, c) : s \in { t \in NamesUpTo(n - 1) : Len(t) = n - 1 },
                          c \in NameChars }

\* A caller that renames the file sub/name and then renames the file it has
\* become.
RenameTwice(name) ==
    LET first == RenameFileOperation(1, << SUB, name >>)
        again == RenameFileOperation(2, newFilePath(<< SUB, name >>))
    IN  AddSubdirectory(Directory(<< >>),
                        AddOperation(AddOperation(Directory(<< SUB >>), first), again))

RenameInit ==
    /\ op = "ExecuteOperations"
    /\ fileName \in NamesUpTo(MaxNameLen) \ { << >> }
    /\ directory = RenameTwice(fileName)
    /\ stack = << ExecuteOperationsFrame(directory) >>
    /\ files = [f \in { << SUB, fileName >> } |-> f]
    /\ dirs = { << >>, << SUB >> }
    /\ orig = { << SUB, fileName >> }
    /\ origDirs = { << >>, << SUB >> }
    /\ status = "running"
    /\ cause = NoCause
    /\ moved = << >>
    /\ failedMoves = 0
    /\ subdirectories = << >>
    /\ removed = << >>
    /\ logged = << >>
    /\ dest = [early |-> << >>, later |-> << >>]
    /\ prog = "none"
    /\ pc = 0
    /\ budget = 0
    /\ events = << >>

---------------------------------------------------------------------------
(* The specifications                                                      *)

Init == TreeInit({"sortFiles", "sortFilesLater", "Execute"})

Next == SortEnter \/ SortRecurse \/ WalkStart \/ WalkVisit

Spec == Init /\ [][Next]_vars

InitPrune == TreeInit({"removeEmptySubdirectories"})

NextPrune == PruneCollect \/ PruneStep

SpecPrune == InitPrune /\ [][NextPrune]_vars

NextPruneRace == PruneCollect \/ PruneStep \/ ExternalRemove

SpecPruneRace == InitPrune /\ [][NextPruneRace]_vars

NextMain ==
    \/ MainBrowse \/ MainStat \/ MainMkdirAll \/ MainWriteFile \/ MainTemplate
    \/ MainCall \/ MainResume \/ MainIfNoGit \/ MainJump \/ MainGitInit
    \/ MainRenameFiles \/ MainMark \/ MainReturn
    \/ SortEnter \/ SortRecurse \/ WalkStart \/ WalkVisit
    \/ PruneCollect \/ PruneStep

SpecMain == MainInit /\ [][NextMain]_vars

NextSortRuns ==
    \/ MainCall \/ MainResume \/ MainMark \/ MainRestore \/ MainReturn
    \/ SortEnter \/ SortRecurse \/ WalkStart \/ WalkVisit

SpecSortRuns == SortRunsInit /\ [][NextSortRuns]_vars

InitEmptiness == TreeInit(EmptinessTests)

NextEmptiness == IsDirectoryEmptyCall

SpecEmptiness == InitEmptiness /\ [][NextEmptiness]_vars

NextPruneRuns ==
    \/ MainCall \/ MainResume \/ MainMark \/ MainReturn
    \/ PruneCollect \/ PruneStep

SpecPruneRuns == PruneRunsInit /\ [][NextPruneRuns]_vars

NextOperations ==
    \/ DirectoryExecuteOperations \/ SubdirectoryExecuteOperations
    \/ ExecuteOperationsReturn

SpecOperations == OperationsInit /\ [][NextOperations]_vars

SpecRename == RenameInit /\ [][NextOperations]_vars

NextClassify == Classify

SpecClassify == ClassifyInit /\ [][NextClassify]_vars

---------------------------------------------------------------------------
(* What the claims are stated with                                         *)

Segments(path) == { path[i] : i \in 1..Len(path) }

\* No directory named .git anywhere in the tree the run started from.
NoGitTree == \A q \in orig \cup origDirs : GIT \notin Segments(q)

\* The place under the project directory the switch of an operation assigns to a
\* file: <destination folder>/<base name>.
DestPath(o, f) == JoinPath(JoinPath(<< >>, destFolder(o, Base(f))), << Base(f) >>)

\* The base name with its extension removed.
StemOf(name) == SubSeq(name, 1, Len(name) - Len(Ext(name)))

\* The file system the first k renames of the log make of the initial one.
RECURSIVE Replay(_)
Replay(k) ==
    IF k = 0 THEN [files |-> [f \in orig |-> f], dirs |-> {}]
    ELSE Rename(Replay(k - 1), moved[k].src, moved[k].dst)

Classified == op = "classify" /\ status = "done"

\* The rows of the classification table as the specification states them.
TableDoc ==
    {
      <<".", "p", "d", "f">>, <<".", "d", "j", "v", "u">>, <<".", "e", "p", "u", "b">>,
      <<".", "h", "t", "m", "l">>, <<".", "d", "o", "c", "x">>, <<".", "m", "d">>,
      <<".", "t", "e", "x">>, <<".", "t", "x", "t">>, <<".", "d", "o", "c">>,
      <<".", "p", "p", "t", "x">>, <<".", "i", "p", "y", "n", "b">> }

TableJob ==
    {
      <<".", "r", "s", "t">>, <<".", "r", "t", "h">>, <<".", "c", "d", "b">>,
      <<".", "l", "s", "-", "d", "y", "n", "a">>, <<".", "d", "b">>, <<".", "d", "b", "b">>,
      <<".", "e", "s", "a", "v">>, <<".", "o", "u", "t">> }

TableMedia ==
    {
      <<".", "m", "k", "v">>, <<".", "m", "p", "4">>, <<".", "a", "a", "c">>,
      <<".", "f", "l", "a", "c">>, <<".", "w", "a", "v">>, <<".", "a", "v", "i">>,
      <<".", "p", "n", "g">>, <<".", "j", "p", "e", "g">>, <<".", "m", "o", "v">>,
      <<".", "w", "m", "v">>, <<".", "j", "p", "g">>, <<".", "m", "p", "3">> }

TableSrc ==
    {
      <<".", "p", "y">>, <<".", "g", "o">>, <<".", "a", "n", "s">>, <<".", "i", "n", "p">>,
      <<".", "c">>, <<".", "m">>, <<".", "f", "o", "r">>, <<".", "c", "p", "p">>,
      <<".", "j", "a", "v", "a">>, <<".", "s", "c", "a", "l", "a">>, <<".", "p", "h", "p">>,
      <<".", "s", "h">>, <<".", "a", "s", "m">>, <<".", "h">>, <<".", "d", "a", "t">> }

TableBin ==
    {
      <<".", "e", "x", "e">> }

\* The extensions the rules of sortFiles in src/enforce.go are documented to list.
ListedEarly ==
    {
      <<".", "p", "d", "f">>, <<".", "d", "j", "v", "u">>, <<".", "e", "p", "u", "b">>,
      <<".", "h", "t", "m", "l">>, <<".", "m", "k", "v">>, <<".", "m", "p", "4">>,
      <<".", "d", "o", "c", "x">>, <<".", "m", "d">>, <<".", "t", "e", "x">>,
      <<".", "t", "x", "t">>, <<".", "d", "o", "c">>, <<".", "p", "p", "t", "x">>,
      <<".", "i", "p", "y", "n", "b">>, <<".", "p", "y">>, <<".", "g", "o">>,
      <<".", "i", "n", "p">>, <<".", "c">>, <<".", "m">>, <<".", "f", "o", "r">>,
      <<".", "c", "p", "p">>, <<".", "j", "a", "v", "a">> }


TableLater == TableDoc \cup TableJob \cup TableMedia \cup TableSrc \cup TableBin

---------------------------------------------------------------------------
(* The claims                                                              *)

\* C1: when sortFiles(root) has returned normally on a tree without a .git
\* directory, a regular file is at root/<D>/<base name> for every regular file the
\* tree held, D being the destination the switch gives for that base name relative
\* to root, and no regular file is directly in root.
C1_SortedUnderRoot ==
    (op \in {"sortFiles", "sortFilesLater"} /\ status = "done" /\ NoGitTree) =>
        /\ \A f \in orig : DestPath(op, f) \in DOMAIN files
        /\ \A q \in DOMAIN files : Len(q) > 1

\* C2: sortFiles never moves or classifies a regular file that lies beneath a
\* directory named .git, at whatever depth the .git directory is.
C2_GitFilesUntouched ==
    op \in {"sortFiles", "sortFilesLater"} =>
        /\ \A i \in 1..Len(moved) : GIT \notin Segments(Dir(moved[i].src))
        /\ \A f \in orig : GIT \in Segments(Dir(f)) => f \in DOMAIN files /\ files[f] = f

\* C3: removeEmptySubdirectories never removes a directory named .git nor a
\* directory beneath one.
C3_PruneSparesGit ==
    op = "removeEmptySubdirectories" =>
        \A i \in 1..Len(removed) : GIT \notin Segments(removed[i])

\* C4: for every file name each switch yields a non-empty destination folder, and
\* an extension that no rule lists yields "data".
C4_ClassificationTotal ==
    Classified =>
        /\ dest.early # << >> /\ \A i \in 1..Len(dest.early) : dest.early[i] # << >>
        /\ dest.later # << >> /\ \A i \in 1..Len(dest.later) : dest.later[i] # << >>
        /\ ToLower(Ext(fileName)) \notin ListedEarly => dest.early = << DATA >>
        /\ ToLower(Ext(fileName)) \notin TableLater => dest.later = << DATA >>

\* C4 witness: a name without extension has been classified and both switches
\* gave "data".
C4_UnlistedToData ==
    /\ Classified
    /\ Ext(fileName) = << >>
    /\ dest.early = << DATA >>
    /\ dest.later = << DATA >>

\* C5: a file whose extension is a rule extension in any letter case gets the
\* destination folder of the same stem with the extension in lower case, and a
\* per-file subfolder is named by the stem.
C5_CaseInsensitive ==
    (Classified /\ ToLower(Ext(fileName)) \in TableLater) =>
        /\ dest.later = destFolderLater(StemOf(fileName) \o ToLower(Ext(fileName)))
        /\ Len(dest.later) = 2 => dest.later[2] = StemOf(fileName)

C7_OtherRows ==
    Classified =>
        LET e == ToLower(Ext(fileName))
            asListed == Ext(fileName) = e
        IN  /\ e \in TableJob => dest.later = << JOB >>
            /\ e \in TableBin => dest.later = << BIN >>
            /\ e \in TableMedia =>
                   IF asListed THEN dest.later = Join(<< MEDIA, StemOf(fileName) >>)
                               ELSE dest.later[1] = MEDIA
            /\ e \in TableSrc =>
                   IF asListed THEN dest.later = Join(<< SRC, StemOf(fileName) >>)
                               ELSE dest.later[1] = SRC
            /\ e \notin TableLater => dest.later = << DATA >>
            /\ \A r1, r2 \in { caseDocLater, caseJobLater, caseMediaLater,
                               caseSrcLater, caseBinLater } :
                   r1 # r2 => r1 \cap r2 = {}

\* C7 witness: a.mp4 has been classified and the later switch gave media/a.
C7_RowsReached ==
    /\ Classified
    /\ fileName = << "a", ".", "m", "p", "4" >>
    /\ dest.later = << MEDIA, << "a" >> >>

\* The regular files of the initial tree that the switch sends to a path.
Competitors(P) == { f \in orig : DestPath(op, f) = P }

LastMoveTo(P) ==
    CHOOSE i \in 1..Len(moved) :
        /\ moved[i].dst = P
        /\ \A j \in (i + 1)..Len(moved) : moved[j].dst # P

\* C8: two distinct files with the same base name do not make the pass fail (the
\* only failures the environment does not cause are a regular file where a
\* directory is needed and a directory where the file is to go; a rename onto an
\* existing regular file succeeds), and after the pass the one file at their common
\* destination is the one renamed there last, while no other of them exists
\* anywhere under root.
C8_LaterMoveOverwrites ==
    /\ (status \in {"fatal", "error"} /\ ~cause.injected) =>
           \/ cause.call = "Rename" /\ cause.path \in dirs
           \/ cause.call = "MkdirAll" /\ \E q \in Prefixes(cause.path) : q \in DOMAIN files
    /\ status = "done" =>
           \A P \in { DestPath(op, f) : f \in orig } :
               Cardinality(Competitors(P)) >= 2 =>
                   /\ P \in DOMAIN files
                   /\ files[P] = moved[LastMoveTo(P)].id
                   /\ files[P] \in Competitors(P)
                   /\ \A f \in Competitors(P) \ {files[P]} :
                          \A q \in DOMAIN files : files[q] # f

\* C8 witness: a finished pass in which two different files were renamed to the
\* same path and the one renamed later is there.
C8_CollisionReached ==
    /\ status = "done"
    /\ \E i, j \in 1..Len(moved) :
         /\ i < j
         /\ moved[i].dst = moved[j].dst
         /\ moved[i].id # moved[j].id
         /\ files[moved[j].dst] = moved[j].id

\* C9: when MkdirAll or Rename fails during a relocation pass the pass ends there:
\* sortFiles aborts the process and Execute returns the error, no file is moved
\* after the failure, and the files moved before it stay where they were moved.
C9_StopsAtFailure ==
    cause.call \in {"MkdirAll", "Rename"} =>
        /\ op = "Execute" => status = "error"
        /\ op # "Execute" => status = "fatal"
        /\ Len(moved) = failedMoves
        /\ files = Replay(Len(moved)).files

\* C9 witness: a pass ended by a failing MkdirAll or Rename after it had moved a
\* file.
C9_FailureAfterMoves ==
    /\ cause.call \in {"MkdirAll", "Rename"}
    /\ status \in {"fatal", "error"}
    /\ \E i \in 1..Len(moved) : moved[i].src # moved[i].dst

\* C10: removeEmptySubdirectories never aborts the run, whatever filesystem error
\* it meets, the errors of its initial walk included.
C10_PruneNeverAborts ==
    op = "removeEmptySubdirectories" => status # "fatal"

\* The directories that hold no entry.
EmptyDirs(fs) == { d \in fs.dirs : readDirNames(fs, d) = << >> }

\* The depth of a tree: the length of its longest directory path.
RECURSIVE MaxOf(_)
MaxOf(S) == IF S = {} THEN 0
            ELSE LET x == CHOOSE y \in S : TRUE
                     m == MaxOf(S \ {x})
                 IN  IF x > m THEN x ELSE m

Depth(D) == MaxOf({ Len(d) : d \in D })

\* C11: with no other writer and no filesystem error, removeEmptySubdirectories
\* called repeatedly on root, at most as many times as the tree is deep, leaves no
\* empty directory under root: the first call that returns already leaves none (a
\* tree of depth 0 has no directory to begin with).
C11_PruneConverges ==
    /\ (op = "removeEmptySubdirectories" /\ Depth(origDirs) = 0) => EmptyDirs(FS) = {}
    /\ (op = "removeEmptySubdirectories" /\ status = "done" /\ logged = << >>) =>
           EmptyDirs(FS) = {}

\* C11 witness: a call without error has returned after removing a directory that
\* was empty only once the directory inside it had been removed.
C11_NestedRemoved ==
    /\ op = "removeEmptySubdirectories" /\ status = "done" /\ logged = << >>
    /\ \E i, j \in 1..Len(removed) : i < j /\ Dir(removed[i]) = removed[j]

\* The two orchestrators.
Mains == {"main", "mainOld"}

\* The places in the sequence of events of a kind of event.
EventsOf(ev, whats) ==
    { i \in 1..Len(events) : events[i].ev = ev /\ events[i].what \in whats }

SortCalls == EventsOf("call", {"sortFiles", "sortFilesLater"})
SortReturns == EventsOf("returned", {"sortFiles", "sortFilesLater"})
PruneCalls == EventsOf("call", {"removeEmptySubdirectories"})
PruneReturns == EventsOf("returned", {"removeEmptySubdirectories"})
Writes == EventsOf("write", {"create", "overwrite"})
GitInits == EventsOf("gitinit", {"ok", "failed"})
GitChecks == EventsOf("gitcheck", {"present", "absent"})

\* main has run to its end on a project directory that was selected and exists,
\* and the environment made nothing fail.
FullRun ==
    /\ prog \in Mains /\ op = "main" /\ status = "done"
    /\ events # << >> /\ events[1].what = "selected"
    /\ budget = MaxFaults

ExampleTree ==
    /\ orig = { << A_PDF >>, << B_PY >>, << C_MP4 >>, << D_XYZ >> }
    /\ origDirs = { << OLD >> }

\* C12: root holds a.pdf, b.py, c.mp4, d.xyz and the empty directory old/, and no
\* .git; after one full run of main of old/enforce.txt a.pdf is under doc/, b.py
\* in src/b/, c.mp4 in media/c/, d.xyz in data/, and old/ is gone.
C12_ExampleSorted ==
    (FullRun /\ prog = "mainOld" /\ ExampleTree) =>
        /\ \E q \in DOMAIN files :
               files[q] = << A_PDF >> /\ q[1] = DOC /\ Base(q) = A_PDF
        /\ << SRC, << "b" >>, B_PY >> \in DOMAIN files
        /\ files[<< SRC, << "b" >>, B_PY >>] = << B_PY >>
        /\ << MEDIA, << "c" >>, C_MP4 >> \in DOMAIN files
        /\ files[<< MEDIA, << "c" >>, C_MP4 >>] = << C_MP4 >>
        /\ << DATA, D_XYZ >> \in DOMAIN files
        /\ files[<< DATA, D_XYZ >>] = << D_XYZ >>
        /\ ~Exists(FS, << OLD >>)

\* C12 witness: the full run of main of old/enforce.txt on that tree has ended with
\* a.pdf in doc/a/ and git init done.
C12_ExampleRun ==
    /\ FullRun /\ prog = "mainOld" /\ ExampleTree
    /\ << DOC, << "a" >>, A_PDF >> \in DOMAIN files
    /\ << GIT >> \in dirs

\* C13: in both orchestrators, in every run that calls sortFiles,
\* removeEmptySubdirectories is called before sortFiles starts and called again
\* after sortFiles has returned.
C13_PruneAroundSort ==
    prog \in Mains =>
        \A i \in SortCalls :
            /\ \E j \in PruneCalls : j < i
            /\ (op = "main" /\ status = "done") =>
                   \E r \in SortReturns, k \in PruneCalls : i < r /\ r < k

\* The scaffold directories of an orchestrator.
ScaffoldDirs(p) ==
    IF p = "main" THEN { << components[i] >> : i \in 1..Len(components) }
    ELSE { << componentsOld[i] >> : i \in 1..Len(componentsOld) }

\* sortFiles has been called by main and has not taken a step yet.
SortStarts ==
    /\ prog \in Mains /\ op \in {"sortFiles", "sortFilesLater"}
    /\ status = "running" /\ stack = << Frame(<< >>) >>

\* C14: in both orchestrators, when sortFiles starts every scaffold directory
\* exists directly under root.
C14_ScaffoldBeforeSort ==
    SortStarts => ScaffoldDirs(prog) \subseteq dirs

\* C15: in both orchestrators every template file is written only after sortFiles
\* and the removeEmptySubdirectories that follows it have returned, and git init
\* comes after every write and is the last step.
C15_TemplatesAfterSort ==
    prog \in Mains =>
        /\ \A w \in Writes, i \in SortCalls :
               /\ i < w
               /\ \E r \in SortReturns, k \in PruneReturns : i < r /\ r < k /\ k < w
        /\ \A g \in GitInits : g = Len(events)

\* C16: no run of main writes a template file that exists: every write of
\* README.md, eg/README.md, report.tex, a .sty file, notebook.ipynb or .gitignore
\* creates the file.
C16_TemplatesNeverOverwritten ==
    prog \in Mains => \A w \in Writes : events[w].what = "create"

\* The scaffold creation has run once and its second run is under way or over.
SecondScaffold ==
    /\ prog \in {"scaffoldTwice", "scaffoldOldTwice"}
    /\ EventsOf("mark", {""}) # {}
    /\ budget = MaxFaults

\* What the first run of the scaffold creation left.
FirstScaffold == events[CHOOSE i \in EventsOf("mark", {""}) : TRUE].fs

\* C17: a second run of the scaffold creation on the root the first run left, all
\* scaffold directories being there, raises no error and leaves the directories
\* and the content of every file as they were after the first run.
C17_ScaffoldIdempotent ==
    SecondScaffold =>
        /\ status # "panic"
        /\ dirs = FirstScaffold.dirs
        /\ files = FirstScaffold.files

\* C17 witness: the second run of the scaffold creation of src/enforce.go has ended,
\* having written eg/README.md again.
C17_SecondRunDone ==
    /\ SecondScaffold /\ status = "done"
    /\ EventsOf("write", {"overwrite"}) # {}
    /\ ScaffoldDirs("main") \subseteq dirs

C19_NoSelectionNoEffect ==
    (prog \in Mains /\ events # << >> /\ events[1].what \in {"cancel", "missing"}) =>
        /\ Len(events) = 1
        /\ op = "main"
        /\ events[1].what = "cancel" => status = "done"
        /\ events[1].what = "missing" => (status = "done" \/ (status = "running" /\ pc = 2))
        /\ files = [f \in orig |-> f]
        /\ dirs = origDirs
        /\ moved = << >> /\ removed = << >>

\* C19 witness: main has returned because the selected path does not exist.
C19_MissingPathReturned ==
    /\ prog \in Mains /\ status = "done"
    /\ events # << >> /\ events[1].what = "missing"

\* A turn of the loop of removeEmptySubdirectories.
PruneTurn ==
    /\ op = "removeEmptySubdirectories" /\ status = "running"
    /\ subdirectories # << >>
    /\ subdirectories' = afterTurn(subdirectories, loopIndex(subdirectories))

\* C20: a collected directory that no longer exists when its turn comes is passed
\* over silently: its turn logs nothing and removes nothing, and the loop goes on
\* with the directories that remain.
C20_VanishedSkippedSilently ==
    [][ (PruneTurn /\ subdirectories[loopIndex(subdirectories)] \notin dirs) =>
            /\ logged' = logged
            /\ removed' = removed
            /\ status' = "running" ]_vars

\* The elements of a sequence.
Range(s) == { s[i] : i \in 1..Len(s) }

\* removeEmptySubdirectories, called alone on the project directory, has collected
\* the directories and is in its loop, or has returned.
InLoop ==
    /\ op = "removeEmptySubdirectories" /\ prog = "none"
    /\ \/ status = "done"
       \/ status = "running" /\ stack # << >> /\ Top.phase = "loop"

\* The collected directories that have had their turn in the loop.
Tested == origDirs \ Range(subdirectories)

\* C21: in one pass of removeEmptySubdirectories a directory has its turn only when
\* every directory beneath it has had its own (a removed directory is beneath none
\* that is still to come), and the test sees the tree as it is at the turn: a
\* directory whose test did not fail is gone exactly when it had no entry left at
\* its turn, whatever it held when the walk collected it.
C21_DeepestFirstLive ==
    InLoop =>
        /\ \A d \in Tested : \A e \in origDirs : IsPrefix(d, e) => e \in Tested
        /\ \A i, j \in 1..Len(removed) :
               (IsPrefix(removed[j], removed[i]) /\ i # j) => i < j
        /\ \A d \in Tested \ Range(logged) :
               /\ d \in Range(removed) <=> d \notin dirs
               /\ d \in dirs => readDirNames(FS, d) # << >>

\* C21 witness: a pass has ended in which a directory that held a directory when
\* the walk collected it was removed, and a directory that holds a file was kept.
C21_ParentSeenLive ==
    /\ InLoop /\ status = "done" /\ logged = << >>
    /\ \E d \in Range(removed) : \E e \in origDirs : Dir(e) = d
    /\ \E d \in Tested : d \in dirs /\ \E f \in DOMAIN files : Dir(f) = d

\* C22: removeEmptySubdirectories changes the tree only by removing directories
\* that have no entry at their turn: the regular files stay where they are with
\* their content, no directory appears, the directories that are gone are those
\* the pass removed, each of them held no file and only directories removed before
\* it, and the folder the pass was called on is neither collected nor removed.
C22_OnlyEmptyRemoved ==
    (op = "removeEmptySubdirectories" /\ prog = "none") =>
        /\ files = [f \in orig |-> f]
        /\ dirs \subseteq origDirs
        /\ origDirs \ dirs = Range(removed)
        /\ << >> \notin Range(removed) \cup Range(subdirectories)
        /\ \A i \in 1..Len(removed) :
               /\ \A f \in orig : ~IsPrefix(removed[i], f)
               /\ \A e \in origDirs :
                      (IsPrefix(removed[i], e) /\ e # removed[i]) =>
                          \E j \in 1..(i - 1) : removed[j] = e

\* C22 witness: a pass has returned after removing every directory there was, so
\* that the folder it was called on is left without an entry.
C22_RootLeftEmpty ==
    /\ op = "removeEmptySubdirectories" /\ prog = "none" /\ status = "done"
    /\ removed # << >>
    /\ dirs = {} /\ DOMAIN files = {}

\* No two regular files of the tree the run started from have the same base name.
DistinctBaseNames == \A f, g \in orig : Base(f) = Base(g) => f = g

\* The regular files of a tree as pairs of base name and content.
NamedContents(F) == { << Base(q), F[q] >> : q \in DOMAIN F }

\* A relocation pass has returned normally.
SortDone == op \in {"sortFiles", "sortFilesLater", "Execute"} /\ status = "done"

\* C23: when the regular files of a tree without .git have pairwise distinct base
\* names and the pass meets no error, the pass loses no file and duplicates none:
\* the pairs of base name and content are those of the start, one path for each,
\* and two files that the switch sends to the same folder are both in that folder.
C23_NoFileLostOrDuplicated ==
    (SortDone /\ NoGitTree /\ DistinctBaseNames) =>
        /\ NamedContents(files) = { << Base(f), f >> : f \in orig }
        /\ Cardinality(DOMAIN files) = Cardinality(orig)
        /\ \A f, g \in orig :
               (f # g /\ destFolder(op, Base(f)) = destFolder(op, Base(g))) =>
                   /\ DestPath(op, f) \in DOMAIN files /\ files[DestPath(op, f)] = f
                   /\ DestPath(op, g) \in DOMAIN files /\ files[DestPath(op, g)] = g

\* C23 witness: FileSorter.Execute has returned with x.exe and y.exe, which were in
\* different directories, both in bin/.
C23_BothInBin ==
    /\ SortDone /\ op = "Execute"
    /\ orig = { << X_EXE >>, << SUB, Y_EXE >> }
    /\ { << BIN, X_EXE >>, << BIN, Y_EXE >> } \subseteq DOMAIN files

\* The project directory held .git when main started.
GitAtStart == << GIT >> \in origDirs

\* C24: in both orchestrators sortFiles is called only when the test of .git that
\* precedes the call found no .git, and in a run on a project directory that holds
\* .git every regular file that was there stays at its path with its content: no
\* file is moved or renamed, files are only added.
C24_GitProjectUntouched ==
    prog \in Mains =>
        /\ \A i \in SortCalls :
               \E c \in GitChecks :
                   /\ c < i
                   /\ events[c].what = "absent"
                   /\ \A k \in GitChecks : k <= c \/ k > i
        /\ GitAtStart =>
               /\ SortCalls = {}
               /\ moved = << >>
               /\ \A f \in orig : f \in DOMAIN files /\ files[f] = f

\* A call of isDirectoryEmpty has returned and is on record.
EmptinessTested == op \in EmptinessTests /\ status = "done"

\* C25: both definitions of isDirectoryEmpty report a directory empty only when
\* the read of one entry name gave no entry and the end of the listing, report it
\* not empty whenever an entry was read, and never report it empty when the read
\* failed in another way.
C25_EmptyOnlyAtEndOfListing ==
    EmptinessTested =>
        LET t == events[1] IN
        /\ t.empty => (t.open = "nil" /\ t.read = "EOF" /\ t.entries = 0)
        /\ t.entries = 1 => ~t.empty
        /\ t.read \notin {"nil", "EOF", "none"} => ~t.empty

\* The tree as it was between the two runs of a program that runs a pass twice.
MarkedTree == events[CHOOSE i \in EventsOf("mark", {""}) : TRUE].fs

\* The first of two passes of removeEmptySubdirectories has returned, and no pass
\* has met an error.
SecondPrune ==
    /\ prog \in PrunePrograms
    /\ EventsOf("mark", {""}) # {}
    /\ logged = << >>

\* C26: right after a pass of removeEmptySubdirectories that met no error no
\* directory below the folder is empty, and a second pass right after it removes
\* nothing: the tree stays as the first pass left it and the directories removed
\* are those the first pass removed.
C26_SecondPassRemovesNothing ==
    SecondPrune =>
        /\ EmptyDirs(MarkedTree) = {}
        /\ dirs = MarkedTree.dirs
        /\ files = MarkedTree.files
        /\ Range(removed) = origDirs \ MarkedTree.dirs
        /\ Len(removed) = Cardinality(origDirs \ MarkedTree.dirs)

\* C26 witness: the second pass has returned after a first pass that removed a
\* directory and the directory it was in, and kept a directory that holds a file.
C26_SecondPassDone ==
    /\ SecondPrune /\ op = "main" /\ status = "done"
    /\ \E i, j \in 1..Len(removed) : Dir(removed[i]) = removed[j]
    /\ \E d \in dirs : \E f \in DOMAIN files : Dir(f) = d

\* sortFiles has returned from its first run on a tree without .git, and its second
\* run on the tree the first left is under way or over.
SecondSort ==
    /\ prog \in {"sortFilesTwice", "sortFilesLaterTwice"}
    /\ EventsOf("mark", {""}) # {}
    /\ NoGitTree

\* C27: a second run of sortFiles on the tree its first run left does not fail, and
\* when it has returned every regular file is at the path it had after the first
\* run, with its content; all the second run leaves behind are directories that
\* hold no file.
C27_SecondSortKeepsPaths ==
    SecondSort =>
        /\ status # "fatal"
        /\ op = "main" =>
               /\ files = MarkedTree.files
               /\ MarkedTree.dirs \subseteq dirs
               /\ \A f \in DOMAIN files : Dir(f) \notin dirs \ MarkedTree.dirs

\* C27 witness: the second run of sortFiles of old/enforce.txt has returned; it
\* moved a file out of its folder and back, which left directories that were not
\* there after the first run.
C27_MovedAndBack ==
    /\ SecondSort /\ prog = "sortFilesLaterTwice"
    /\ op = "main" /\ status = "done"
    /\ files = MarkedTree.files /\ DOMAIN files # {}
    /\ dirs # MarkedTree.dirs

\* sortFiles of old/enforce.txt and FileSorter.Execute are run one after the other,
\* each on the same tree, which has no .git and no two files of the same name.
BothSorts ==
    /\ prog = "sortFilesThenExecute"
    /\ NoGitTree /\ DistinctBaseNames

\* C28: on a tree without .git whose regular files have pairwise distinct base
\* names sortFiles of old/enforce.txt and FileSorter.Execute both complete, and
\* they leave the regular files at the same paths.
C28_SameResult ==
    BothSorts =>
        /\ status \notin {"fatal", "error"}
        /\ (op = "main" /\ status = "done") => DOMAIN files = DOMAIN MarkedTree.files

\* The operations of a RecursiveDirectory in pre-order: its own, in the order they
\* were added, then those of each subdirectory, in the order the subdirectories
\* were added.
RECURSIVE PreOrder(_)
RECURSIVE PreOrderEach(_)
PreOrder(r) == r.operations \o PreOrderEach(r.subdirectories)
PreOrderEach(rs) ==
    IF rs = << >> THEN << >> ELSE PreOrder(Head(rs)) \o PreOrderEach(Tail(rs))

\* The file system the first k operations executed have made of the initial one,
\* each operation that returned no error having had its effect.
RECURSIVE AfterOperations(_)
AfterOperations(k) ==
    IF k = 0 THEN [files |-> [f \in orig |-> f], dirs |-> origDirs]
    ELSE IF events[k].err THEN AfterOperations(k - 1)
    ELSE Execute(PreOrder(directory)[k], AfterOperations(k - 1), FALSE).fs

\* C29: RecursiveDirectory.ExecuteOperations executes the operations in pre-order,
\* each once; the first operation that returns an error is the last one executed
\* and its error is returned; what the operations before it did stays done.
C29_PreOrderUntilError ==
    op = "ExecuteOperations" =>
        /\ Len(events) <= Len(PreOrder(directory))
        /\ \A k \in 1..Len(events) :
               /\ events[k].id = PreOrder(directory)[k].id
               /\ k < Len(events) => ~events[k].err
        /\ status = "done" =>
               /\ Len(events) = Len(PreOrder(directory))
               /\ \A k \in 1..Len(events) : ~events[k].err
        /\ status = "error" <=> (events # << >> /\ events[Len(events)].err)
        /\ FS = AfterOperations(Len(events))

\* C29 witness: an operation of a subdirectory has returned an error after two
\* operations that changed the tree, with operations still to come; the call has
\* returned the error.
C29_StoppedInSubdirectory ==
    /\ op = "ExecuteOperations" /\ status = "error"
    /\ Len(events) >= 3 /\ Len(events) < Len(PreOrder(directory))
    /\ Len(directory.operations) < Len(events)
    /\ dirs # origDirs

\* The name the file has now: the only file of the project directory.
Renamed == Base(CHOOSE p \in DOMAIN files : TRUE)

RenameRun == op = "ExecuteOperations" /\ fileName # << >>

\* C30: transformFileName is idempotent and its result has no white space, no
\* hyphen, no upper-case letter and no two underscores in a row: once
\* RenameFileOperation.Execute has renamed the file without error, the name the file
\* has is transformFileName of the name it had, transforming it again gives the same
\* name, and none of its characters is white space, a hyphen or an upper-case
\* letter, and no two neighbouring ones are both underscores; and an Execute on a
\* file whose transformed name is the name it has does not call os.Rename, returns
\* no error and leaves the file where it is.
C30_TransformFileName ==
    RenameRun =>
        /\ (events # << >> /\ ~events[1].err) =>
               /\ Renamed = transformFileName(fileName)
               /\ transformFileName(Renamed) = Renamed
               /\ \A i \in 1..Len(Renamed) :
                      /\ ~IsSpace(Renamed[i])
                      /\ Renamed[i] # "-"
                      /\ ~IsUpper(Renamed[i])
               /\ \A i \in 1..(Len(Renamed) - 1) :
                      ~(Renamed[i] = "_" /\ Renamed[i + 1] = "_")
        /\ \A k \in 1..Len(events) :
               transformFileName(Base(events[k].path)) = Base(events[k].path) =>
                   /\ ~events[k].called
                   /\ ~events[k].err
        /\ (Len(events) = 2 /\ ~events[1].err) =>
               /\ ~events[2].called
               /\ DOMAIN files = { << SUB, transformFileName(fileName) >> }

============================================================================
